---- MODULE Spec2Model ----
(***************************************************************************)
(* Model of the MySQL diagnostic agent (services/mysql-agent): the tool    *)
(* registry, the planner with its default-plan fallback, the executor, the *)
(* signal-completeness table, the summarizer with its raw-dump fallback    *)
(* and the Service.Query facade that strings them together.                *)
(*                                                                         *)
(* Strings are sequences of tokens: a token is either a white-space        *)
(* character or a maximal run of other characters, so that                 *)
(* strings.TrimSpace is computed, not assumed.                             *)
(***************************************************************************)
EXTENDS Integers, Sequences, FiniteSets, TLC

\* Longest plan the language model returns in this model.
MaxPlanLen == 3

VARIABLES
    \* Service.Query (agent/service.go)
    svc,         \* how the *Service behind the RPC name "Agent" was built
    registry,    \* keys of ToolRegistry.tools (meaningful when svc = "ready")
    pc,          \* position of the worker serving the current request
    question,    \* req.Query of the current request
    toolDefs,    \* toolDefs local of Service.Query
    planned,     \* plan, err locals of Service.Query: what generateToolPlan returned
    plan,        \* plan.Steps local of Service.Query
    idx,         \* loop position of executePlan
    executions,  \* results local of executePlan
    invoked,     \* log: the Execute calls made, in call order, with what the probe did
    llmCalls,    \* log: completion calls made for the current request
    payload,     \* payload of the summarization call
    summary,     \* answer, summaryErr locals of Service.Query
    resp,        \* *QueryResponse
    fault,       \* the error Query returned to net/rpc
    \* package-level state of package agent (initAgent, ensureTools)
    once,        \* sync.Once of initAgent: done flag and holder of its mutex
    chatModel,   \* the chat model, "nil" until createChatModel built it
    initErr,     \* the error initAgent caches
    toolOnce,    \* sync.Once of ensureTools
    toolErr,     \* the error ensureTools caches
    toolMap,     \* keys of toolMap
    toolList,    \* names of toolList, in registration order
    initRuns,    \* log: how often each initialization body was entered
    \* goroutines calling into the package at the same time
    cpc,         \* position of each caller
    called,       \* the function each caller called
    observed,        \* what each caller was handed, per function
    \* RPCService.Query (agent/rpc.go) and the process that serves it
    host,        \* position of main
    rpcPc,       \* position of the worker inside RPCService.Query
    req,         \* the QueryRequest
    ctx,         \* the context Query derives: its timeout and whether it expired
    rpcPlan,     \* plan local
    rpcPlanned,  \* plan, refusal, err as planWithLLM returned them
    rpcIdx,      \* loop position over plan
    toolRuns,    \* toolRuns local
    failure,     \* failure local
    rpcResp,     \* *QueryResponse
    rpcFault,    \* the error Query returned to net/rpc
    rpcCalls,    \* log: completion calls made for the current request
    rpcInvoked,  \* log: InvokableRun calls made for the current request
    \* executePlan and generateToolPlan applied on their own
    db,          \* the database the tools query: what each tool's statement meets
    rerun,       \* executePlan run twice over one plan: position and results
    planner,     \* generateToolPlan: its inputs and what it returned
    \* the collaborators of the agent, each on its own
    reg,         \* a ToolRegistry: its map, and the calls made on it
    deepseek,    \* a deepseek.Client: what it was built from, the calls made
    qa,          \* one call of the backend's queryAgent and its goroutine
    server,      \* runRPCServer and the goroutine of acceptLoop
    usr          \* one call of CreateUser: the request, the statements issued

facadeVars == <<svc, registry, pc, question, toolDefs, planned, plan, idx,
                executions, invoked, llmCalls, payload, summary, resp, fault>>

agentVars == <<once, chatModel, initErr, toolOnce, toolErr, toolMap, toolList,
               initRuns>>

callerVars == <<cpc, called, observed>>

rpcVars == <<host, rpcPc, req, ctx, rpcPlan, rpcPlanned, rpcIdx, toolRuns, failure, rpcResp,
             rpcFault, rpcCalls, rpcInvoked>>

pureVars == <<db, rerun, planner>>

backendVars == <<reg, deepseek, qa, server, usr>>





\* what an action on one collaborator leaves alone
outsideReg == <<deepseek, qa, server, usr, facadeVars, agentVars, callerVars, rpcVars, pureVars>>
outsideDeepseek == <<reg, qa, server, usr, facadeVars, agentVars, callerVars, rpcVars, pureVars>>
outsideQa == <<reg, deepseek, server, usr, facadeVars, agentVars, callerVars, rpcVars, pureVars>>
outsideServer == <<reg, deepseek, qa, usr, facadeVars, agentVars, callerVars, rpcVars, pureVars>>
outsideUsr == <<reg, deepseek, qa, server, facadeVars, agentVars, callerVars, rpcVars, pureVars>>

\* everything outside Service.Query
packageVars == <<agentVars, callerVars, rpcVars, pureVars, backendVars>>

vars == <<facadeVars, packageVars>>

----------------------------------------------------------------------------
\* strings

IsSpace(c) == c \in {" ", "\n", "\t"}

RECURSIVE TrimLeft(_)
TrimLeft(s) ==
    IF s # <<>> /\ IsSpace(Head(s)) THEN TrimLeft(Tail(s)) ELSE s

RECURSIVE TrimRight(_)
TrimRight(s) ==
    IF s # <<>> /\ IsSpace(s[Len(s)])
    THEN TrimRight(SubSeq(s, 1, Len(s) - 1))
    ELSE s

TrimSpace(s) == TrimRight(TrimLeft(s))

\* err.Error() of a nil-able error, and the empty string of the same shape
EmptyStr == [msg |-> "", tool |-> <<>>]
NilErr == [nil |-> TRUE, msg |-> "", tool |-> <<>>]
NewErr(m, t) == [nil |-> FALSE, msg |-> m, tool |-> t]
ErrorString(e) == [msg |-> e.msg, tool |-> e.tool]

NilOutput == [nil |-> TRUE, from |-> <<>>]
NilParams == [isNil |-> TRUE, kv |-> {}]
MakeParams(pairs) == [isNil |-> FALSE, kv |-> pairs]

----------------------------------------------------------------------------
\* tool catalog

SlowQueryName == <<"slow_query_analysis">>
ShowStatusName == <<"show_status">>
ShowConnectionsName == <<"show_connections">>
ShowProcesslistName == <<"show_processlist">>

GetDefinition(name) ==
    [Name |-> name,
     Description |->
        CASE name = SlowQueryName -> "slow query digest"
          [] name = ShowStatusName -> "server status"
          [] name = ShowConnectionsName -> "connection snapshot"
          [] name = ShowProcesslistName -> "process list"
          [] OTHER -> ""]

RegisterTool(tools, name) == tools \cup {GetDefinition(name).Name}

\* faulty variant of GetTool: every name is found
GetToolAlways(tools, name) == TRUE

GetTool(tools, name) == name \in tools

\* a map is ranged over in an unspecified order: every order is possible
GetToolDefinitions(tools) ==
    {[i \in 1..Cardinality(tools) |-> GetDefinition(order[i])] :
        order \in {o \in [1..Cardinality(tools) -> tools] :
                      \A i, j \in 1..Cardinality(tools) : i # j => o[i] # o[j]}}

InitializeToolsOrder ==
    <<SlowQueryName, ShowStatusName, ShowConnectionsName, ShowProcesslistName>>

RECURSIVE InitializeToolsFrom(_, _, _)
InitializeToolsFrom(tools, k, failAt) ==
    IF k > Len(InitializeToolsOrder) THEN [tools |-> tools, err |-> NilErr]
    ELSE IF k = failAt
         THEN [tools |-> {}, err |-> NewErr("create tool", InitializeToolsOrder[k])]
         ELSE InitializeToolsFrom(RegisterTool(tools, InitializeToolsOrder[k]),
                                  k + 1, failAt)

InitializeTools(failAt) == InitializeToolsFrom({}, 1, failAt)

----------------------------------------------------------------------------
\* fixed configuration

defaultToolSequence ==
    << [Tool |-> ShowStatusName, Reason |-> <<"core status metrics">>,
        Params |-> MakeParams({})],
       [Tool |-> ShowConnectionsName, Reason |-> <<"connections and sessions">>,
        Params |-> MakeParams({})],
       [Tool |-> ShowProcesslistName, Reason |-> <<"active sessions">>,
        Params |-> MakeParams({<<"full", "true">>})],
       [Tool |-> SlowQueryName, Reason |-> <<"top slow query digests">>,
        Params |-> MakeParams({<<"limit", "10">>})] >>

requiredSignalConfig ==
    << [Key |-> "slow_queries", Name |-> "slow queries", Tool |-> SlowQueryName],
       [Key |-> "lock_waits", Name |-> "lock waits", Tool |-> <<"innodb_lock_waits">>],
       [Key |-> "replication_delay", Name |-> "replication delay",
        Tool |-> <<"replication_status">>],
       [Key |-> "long_transactions", Name |-> "long transactions",
        Tool |-> <<"innodb_trx">>] >>

GuidanceAnswer == <<"please enter a valid query question">>
FallbackPrefix == <<"tools ran but the summary stage failed, see the raw results:">>

----------------------------------------------------------------------------
\* planner

\* faulty variant of normalizeFrom: a tool name that was seen is kept again
RECURSIVE normalizeFromNoDedup(_, _)
normalizeFromNoDedup(steps, seen) ==
    IF steps = <<>> THEN <<>>
    ELSE LET step == Head(steps)
             name == TrimSpace(step.Tool)
         IN  IF name = <<>> THEN normalizeFromNoDedup(Tail(steps), seen)
             ELSE <<[Tool |-> name,
                     Reason |-> TrimSpace(step.Reason),
                     Params |-> MakeParams(step.Params.kv)]>>
                  \o normalizeFromNoDedup(Tail(steps), seen)

RECURSIVE normalizeFrom(_, _)
normalizeFrom(steps, seen) ==
    IF steps = <<>> THEN <<>>
    ELSE LET step == Head(steps)
             name == TrimSpace(step.Tool)
         IN  IF name = <<>> THEN normalizeFrom(Tail(steps), seen)
             ELSE IF name \in seen THEN normalizeFrom(Tail(steps), seen)
             ELSE <<[Tool |-> name,
                     Reason |-> TrimSpace(step.Reason),
                     Params |-> MakeParams(step.Params.kv)]>>
                  \o normalizeFrom(Tail(steps), seen \cup {name})

normalizePlan(steps) == normalizeFrom(steps, {})

\* faulty variant of generateToolPlan: a completion that does not parse is
\* answered with a plan of its own
generateToolPlanGuessing(clientIsNil, reply) ==
    IF clientIsNil
    THEN [steps |-> <<>>, err |-> NewErr("deepseek client not initialised", <<>>)]
    ELSE IF reply.kind = "call_failed"
    THEN [steps |-> <<>>, err |-> NewErr("call DeepSeek planner", <<>>)]
    ELSE IF reply.kind = "empty_choices"
    THEN [steps |-> <<>>, err |-> NewErr("planner returned empty choices", <<>>)]
    ELSE IF reply.kind = "bad_json"
    THEN [steps |-> normalizePlan(defaultToolSequence), err |-> NilErr]
    ELSE [steps |-> normalizePlan(reply.steps), err |-> NilErr]

\* reply.kind: "call_failed" (ChatWithBody returned an error), "empty_choices",
\* "bad_json" (the content does not parse as a plan), "content" (it parses)
generateToolPlan(clientIsNil, reply) ==
    IF clientIsNil
    THEN [steps |-> <<>>, err |-> NewErr("deepseek client not initialised", <<>>)]
    ELSE IF reply.kind = "call_failed"
    THEN [steps |-> <<>>, err |-> NewErr("call DeepSeek planner", <<>>)]
    ELSE IF reply.kind = "empty_choices"
    THEN [steps |-> <<>>, err |-> NewErr("planner returned empty choices", <<>>)]
    ELSE IF reply.kind = "bad_json"
    THEN [steps |-> <<>>, err |-> NewErr("parse plan JSON", <<>>)]
    ELSE [steps |-> normalizePlan(reply.steps), err |-> NilErr]

\* faulty variant of defaultPlan: keeps the order in which the catalog was listed
defaultPlanByCatalogOrder(defs) ==
    LET wanted == {defaultToolSequence[i].Tool : i \in DOMAIN defaultToolSequence}
        StepOf(name) ==
            CHOOSE s \in {defaultToolSequence[i] : i \in DOMAIN defaultToolSequence} :
                s.Tool = name
        Wanted(d) == d.Name \in wanted
        kept == SelectSeq(defs, Wanted)
    IN  normalizePlan([i \in 1..Len(kept) |-> StepOf(kept[i].Name)])

defaultPlan(defs) ==
    LET available == {defs[i].Name : i \in DOMAIN defs}
        Available(step) == step.Tool \in available
    IN  normalizePlan(SelectSeq(defaultToolSequence, Available))

\* faulty variant of effectivePlan: no fallback at all
planAsPlanned(got, defs) == got.steps

\* faulty variant of effectivePlan: no fallback for an empty plan
effectivePlanErrorOnly(got, defs) ==
    IF ~got.err.nil THEN defaultPlan(defs) ELSE got.steps

\* faulty variant of effectivePlan: the fallback probes whatever the catalog
\* lists, in the order it was listed
effectivePlanListedFallback(got, defs) ==
    LET listed == normalizePlan([i \in 1..Len(defs) |->
                     [Tool |-> defs[i].Name, Reason |-> <<>>, Params |-> MakeParams({})]])
        first == IF ~got.err.nil THEN listed ELSE got.steps
    IN  IF Len(first) = 0 THEN listed ELSE first

\* the plan Service.Query goes on to execute
effectivePlan(got, defs) ==
    LET first == IF ~got.err.nil THEN defaultPlan(defs) ELSE got.steps
    IN  IF Len(first) = 0 THEN defaultPlan(defs) ELSE first

----------------------------------------------------------------------------
\* executor

\* Tool.Execute takes no context and runs db.Query: the probe has no deadline
NoDeadline == 0

\* faulty variant of executeStep: a failing probe hands back what it had read
executeStepKeepsOutput(tools, step, outcome) ==
    IF ~GetTool(tools, step.Tool)
    THEN [Step |-> step, Description |-> "", Output |-> NilOutput,
          Err |-> NewErr("not registered", step.Tool)]
    ELSE IF outcome = "ok"
    THEN [Step |-> step, Description |-> GetDefinition(step.Tool).Description,
          Output |-> [nil |-> FALSE, from |-> step.Tool], Err |-> NilErr]
    ELSE [Step |-> step, Description |-> GetDefinition(step.Tool).Description,
          Output |-> [nil |-> FALSE, from |-> step.Tool],
          Err |-> NewErr("query failed", step.Tool)]

\* outcome: what the database probe did ("ok" or "err"); not consulted for a
\* tool that is not registered
executeStep(tools, step, outcome) ==
    IF ~GetTool(tools, step.Tool)
    THEN [Step |-> step, Description |-> "", Output |-> NilOutput,
          Err |-> NewErr("not registered", step.Tool)]
    ELSE IF outcome = "ok"
    THEN [Step |-> step, Description |-> GetDefinition(step.Tool).Description,
          Output |-> [nil |-> FALSE, from |-> step.Tool], Err |-> NilErr]
    ELSE [Step |-> step, Description |-> GetDefinition(step.Tool).Description,
          Output |-> NilOutput, Err |-> NewErr("query failed", step.Tool)]

\* faulty variant of appendResult: an unregistered step leaves no result
appendUnlessMissing(results, result) ==
    IF result.Err.msg = "not registered" THEN results ELSE Append(results, result)

appendResult(results, result) == Append(results, result)

\* faulty variant of nextStep: the loop is left at the first failing step
breakOnError(i, n, result) == IF result.Err.nil THEN i + 1 ELSE n + 1

\* the range loop of executePlan: every iteration moves on to the next step
nextStep(i, n, result) == i + 1

----------------------------------------------------------------------------
\* response assembly

copyParams(p) == MakeParams(p.kv)

\* faulty variant of buildSources: a failed step gets no entry
buildSourcesSuccessfulOnly(execs) ==
    LET ok == SelectSeq(execs, LAMBDA e : e.Err.nil)
    IN  [i \in 1..Len(ok) |->
            [Tool |-> ok[i].Step.Tool,
             Description |-> ok[i].Description,
             Status |-> "success",
             Params |-> copyParams(ok[i].Step.Params),
             Error |-> EmptyStr]]

\* faulty variant of buildSources: a failed step is reported like a successful one
buildSourcesAllSuccess(execs) ==
    [i \in 1..Len(execs) |->
        [Tool |-> execs[i].Step.Tool,
         Description |-> execs[i].Description,
         Status |-> "success",
         Params |-> copyParams(execs[i].Step.Params),
         Error |-> EmptyStr]]

buildSources(execs) ==
    [i \in 1..Len(execs) |->
        [Tool |-> execs[i].Step.Tool,
         Description |-> execs[i].Description,
         Status |-> IF execs[i].Err.nil THEN "success" ELSE "error",
         Params |-> copyParams(execs[i].Step.Params),
         Error |-> IF execs[i].Err.nil THEN EmptyStr ELSE ErrorString(execs[i].Err)]]

\* faulty variant of rawEntry: "result" is set for a failed step too
rawEntryAlwaysResult(exec) ==
    IF ~exec.Err.nil
    THEN [keys |-> {"params", "error", "result"}, params |-> exec.Step.Params,
          error |-> ErrorString(exec.Err), result |-> NilOutput]
    ELSE [keys |-> {"params", "result"}, params |-> exec.Step.Params,
          error |-> EmptyStr, result |-> exec.Output]

\* one entry of raw / of the fallback dump: "params" plus either "error" or "result"
rawEntry(exec) ==
    IF ~exec.Err.nil
    THEN [keys |-> {"params", "error"}, params |-> exec.Step.Params,
          error |-> ErrorString(exec.Err), result |-> NilOutput]
    ELSE [keys |-> {"params", "result"}, params |-> exec.Step.Params,
          error |-> EmptyStr, result |-> exec.Output]

RECURSIVE buildRawFrom(_, _)
buildRawFrom(execs, raw) ==
    IF execs = <<>> THEN raw
    ELSE LET key == Head(execs).Step.Tool
             entry == rawEntry(Head(execs))
         IN  buildRawFrom(Tail(execs),
                 IF key \in DOMAIN raw
                 THEN [raw EXCEPT ![key] = Append(@, entry)]
                 ELSE [k \in DOMAIN raw \cup {key} |->
                         IF k = key THEN <<entry>> ELSE raw[k]])

EmptyMap == [k \in {} |-> <<>>]

buildRaw(execs) == buildRawFrom(execs, EmptyMap)

\* faulty variant of buildFallbackAnswer: failed steps are left out of the dump
buildFallbackAnswerSuccessesOnly(execs) ==
    LET Ok(e) == e.Err.nil
    IN  [text |-> FallbackPrefix, dump |-> buildRawFrom(SelectSeq(execs, Ok), EmptyMap)]

\* json.MarshalIndent cannot fail on these values (strings, numbers, maps,
\* slices), so the marshal-error branch is not reachable
buildFallbackAnswer(execs) ==
    [text |-> FallbackPrefix, dump |-> buildRawFrom(execs, EmptyMap)]

----------------------------------------------------------------------------
\* signal completeness

LastExecOf(execs, tool) ==
    LET hits == {i \in DOMAIN execs : execs[i].Step.Tool = tool}
    IN  execs[CHOOSE i \in hits : \A j \in hits : j <= i]

\* faulty variant of signalStatus: the execution record is consulted before
\* the catalog
signalStatusExecutionFirst(cfg, available, execs) ==
    LET ran == \E i \in DOMAIN execs : execs[i].Step.Tool = cfg.Tool
    IN  IF ran
        THEN IF ~LastExecOf(execs, cfg.Tool).Err.nil
             THEN [Key |-> cfg.Key, Name |-> cfg.Name, Tool |-> cfg.Tool,
                   Status |-> "error",
                   Notes |-> ErrorString(LastExecOf(execs, cfg.Tool).Err)]
             ELSE [Key |-> cfg.Key, Name |-> cfg.Name, Tool |-> cfg.Tool,
                   Status |-> "collected", Notes |-> EmptyStr]
        ELSE IF cfg.Tool \notin available
        THEN [Key |-> cfg.Key, Name |-> cfg.Name, Tool |-> cfg.Tool,
              Status |-> "unsupported",
              Notes |-> [msg |-> "tool not registered", tool |-> <<>>]]
        ELSE [Key |-> cfg.Key, Name |-> cfg.Name, Tool |-> cfg.Tool,
              Status |-> "not_collected", Notes |-> EmptyStr]

signalStatus(cfg, available, execs) ==
    LET ran == \E i \in DOMAIN execs : execs[i].Step.Tool = cfg.Tool
    IN  IF cfg.Tool \notin available
        THEN [Key |-> cfg.Key, Name |-> cfg.Name, Tool |-> cfg.Tool,
              Status |-> "unsupported",
              Notes |-> [msg |-> "tool not registered", tool |-> <<>>]]
        ELSE IF ran
        THEN IF ~LastExecOf(execs, cfg.Tool).Err.nil
             THEN [Key |-> cfg.Key, Name |-> cfg.Name, Tool |-> cfg.Tool,
                   Status |-> "error",
                   Notes |-> ErrorString(LastExecOf(execs, cfg.Tool).Err)]
             ELSE [Key |-> cfg.Key, Name |-> cfg.Name, Tool |-> cfg.Tool,
                   Status |-> "collected", Notes |-> EmptyStr]
        ELSE [Key |-> cfg.Key, Name |-> cfg.Name, Tool |-> cfg.Tool,
              Status |-> "not_collected", Notes |-> EmptyStr]

\* faulty variant of buildSignalStatuses: signals of unregistered tools are dropped
buildSignalStatusesRegisteredOnly(defs, execs) ==
    LET available == {defs[i].Name : i \in DOMAIN defs}
        Registered(cfg) == cfg.Tool \in available
        kept == SelectSeq(requiredSignalConfig, Registered)
    IN  [i \in 1..Len(kept) |-> signalStatus(kept[i], available, execs)]

buildSignalStatuses(defs, execs) ==
    LET available == {defs[i].Name : i \in DOMAIN defs}
    IN  [i \in 1..Len(requiredSignalConfig) |->
            signalStatus(requiredSignalConfig[i], available, execs)]

----------------------------------------------------------------------------
\* summarizer

\* faulty variant of summaryToolResults: failed steps are left out
summaryToolResultsSuccessOnly(execs) ==
    LET Ok(e) == e.Err.nil
        kept == SelectSeq(execs, Ok)
    IN  [i \in 1..Len(kept) |->
            [Tool |-> kept[i].Step.Tool,
             Params |-> copyParams(kept[i].Step.Params),
             Status |-> "success",
             Result |-> kept[i].Output,
             Error |-> EmptyStr]]

summaryToolResults(execs) ==
    [i \in 1..Len(execs) |->
        [Tool |-> execs[i].Step.Tool,
         Params |-> copyParams(execs[i].Step.Params),
         Status |-> IF execs[i].Err.nil THEN "success" ELSE "error",
         Result |-> execs[i].Output,
         Error |-> IF execs[i].Err.nil THEN EmptyStr ELSE ErrorString(execs[i].Err)]]

summaryPayload(q, steps, execs, defs) ==
    [Question |-> q, Plan |-> steps,
     ToolResults |-> summaryToolResults(execs),
     Signals |-> buildSignalStatuses(defs, execs)]

\* reply.kind: "call_failed", "empty_choices", "content"
generateDBASummary(clientIsNil, reply) ==
    IF clientIsNil
    THEN [answer |-> <<>>, err |-> NewErr("deepseek client not initialised", <<>>)]
    ELSE IF reply.kind = "call_failed"
    THEN [answer |-> <<>>, err |-> NewErr("call DeepSeek summary", <<>>)]
    ELSE IF reply.kind = "empty_choices"
    THEN [answer |-> <<>>, err |-> NewErr("summary returned empty choices", <<>>)]
    ELSE [answer |-> TrimSpace(reply.content), err |-> NilErr]

----------------------------------------------------------------------------
\* inputs

Questions ==
    { <<>>, <<" ", "\n">>, <<" ", "why", " ", "slow?", "\n">> }

StepChoices ==
    { [Tool |-> ShowStatusName, Reason |-> <<" ", "status", " ">>, Params |-> NilParams],
      [Tool |-> <<" ", "show_status", " ">>, Reason |-> <<>>,
       Params |-> MakeParams({<<"pattern", "Conn%">>})],
      [Tool |-> SlowQueryName, Reason |-> <<"digest">>,
       Params |-> MakeParams({<<"limit", "5">>})],
      [Tool |-> <<"innodb_trx">>, Reason |-> <<"long", " ", "trx">>, Params |-> NilParams],
      [Tool |-> ShowProcesslistName, Reason |-> <<"sessions">>,
       Params |-> MakeParams({<<"full", "true">>})],
      [Tool |-> <<" ">>, Reason |-> <<"nothing">>, Params |-> NilParams] }

PlansUpTo(n) == UNION {[1..k -> StepChoices] : k \in 0..n}

PlannerReplies ==
    { [kind |-> k, steps |-> <<>>] : k \in {"call_failed", "empty_choices", "bad_json"} }
    \cup { [kind |-> "content", steps |-> p] : p \in PlansUpTo(MaxPlanLen) }

SummaryReplies ==
    { [kind |-> k, content |-> <<>>] : k \in {"call_failed", "empty_choices"} }
    \cup { [kind |-> "content", content |-> c] :
             c \in { <<>>, <<" ", "\n">>, <<" ", "report", "\n">> } }

NotPlanned == [steps |-> <<>>, err |-> NilErr]
NoPayload == [Question |-> <<>>, Plan |-> <<>>, ToolResults |-> <<>>, Signals |-> <<>>]
NoAnswer == [text |-> <<>>, dump |-> EmptyMap]
\* the reply value net/rpc hands to the method: the zero QueryResponse
ZeroResponse == [Answer |-> NoAnswer, Sources |-> <<>>, Raw |-> EmptyMap]
NoCalls == [plan |-> 0, summary |-> 0]
NotSummarized == [answer |-> <<>>, err |-> NilErr]

----------------------------------------------------------------------------
\* package agent: errors as texts (a text is a sequence of tokens, so that
\* fmt.Errorf("...: %w", err) is the concatenation it is)

NoError == [nil |-> TRUE, text |-> <<>>]
errorsNew(text) == [nil |-> FALSE, text |-> text]
Errorf(text, err) == [nil |-> FALSE, text |-> text \o <<":">> \o err.text]
DeadlineExceeded == errorsNew(<<"context deadline exceeded">>)

----------------------------------------------------------------------------
\* package agent: the one-time initializers

\* the tools ensureTools registers, in its order
ensureToolsOrder ==
    << <<"mysql_processlist">>, <<"mysql_innodb_status">>, <<"mysql_global_status">>,
       <<"mysql_innodb_trx">>, <<"mysql_innodb_mutex">>, <<"mysql_slow_queries">>,
       <<"mysql_schema_stats">>, <<"mysql_config_diff">> >>

\* what the environment holds when createChatModel reads it
Environments == {"no_key", "bad_endpoint", "ok"}

createChatModel(env) ==
    IF env = "no_key"
    THEN [model |-> "nil", err |-> errorsNew(<<"DEEPSEEK_API_KEY not set">>)]
    ELSE IF env = "bad_endpoint"
    THEN [model |-> "nil",
          err |-> Errorf(<<"create deepseek model failed">>,
                         errorsNew(<<"NewChatModel">>))]
    ELSE [model |-> "deepseek-chat", err |-> NoError]

\* one registration of the body of ensureTools: InferTool, then either the
\* cached error or the entry in toolMap and toolList
registerTool(t, name, inferOk) ==
    IF inferOk
    THEN [t EXCEPT !.map = @ \cup {name}, !.list = Append(@, name)]
    ELSE [t EXCEPT !.err = Errorf(<<"register tool failed">> \o name,
                                  errorsNew(<<"InferTool">>))]

\* the body of toolOnce.Do from its k-th registration on; failAt is the
\* registration whose InferTool fails (0: none)
RECURSIVE registerFrom(_, _, _)
registerFrom(t, k, failAt) ==
    IF k > Len(ensureToolsOrder) THEN t
    ELSE IF k = failAt THEN registerTool(t, ensureToolsOrder[k], FALSE)
    ELSE registerFrom(registerTool(t, ensureToolsOrder[k], TRUE), k + 1, failAt)

\* sync.Once.Do: the body is skipped once done is set; it is entered by the
\* caller that finds the mutex free; any other caller waits for the mutex
doSkipsBody(o) == o.done

\* faulty variant of doRunsBody: the mutex is not consulted
doRunsBodyUnlocked(o) == ~o.done

doRunsBody(o) == ~o.done /\ o.holder = 0

Unused == [done |-> FALSE, holder |-> 0]
Done == [done |-> TRUE, holder |-> 0]

\* what ensureTools hands back after toolOnce.Do
ensureToolsResult(err, list) ==
    IF ~err.nil THEN [tools |-> <<>>, err |-> err]
    ELSE [tools |-> list, err |-> NoError]

\* what initAgent hands back after once.Do
initAgentResult(model, err) ==
    IF ~err.nil THEN [model |-> "nil", err |-> err]
    ELSE [model |-> model, err |-> NoError]

\* faulty variant of ensureTools: the body runs at every call
ensureToolsEveryCall(t, failAt) ==
    LET made == registerFrom([t EXCEPT !.map = {}, !.list = <<>>], 1, failAt)
    IN  [made EXCEPT !.done = TRUE, !.runs = 1]

\* ensureTools called with no other goroutine inside it; t holds toolOnce's
\* done flag, toolErr, toolMap, toolList and the count of body runs
ensureTools(t, failAt) ==
    IF doSkipsBody(t) THEN t
    ELSE LET made == registerFrom([t EXCEPT !.map = {}], 1, failAt)
         IN  [made EXCEPT !.done = TRUE, !.runs = @ + 1]

\* initAgent called with no other goroutine inside it; a holds once's done
\* flag, chatModel, initErr and the count of body runs
initAgent(a, t, env, failAt) ==
    IF doSkipsBody(a) THEN [agent |-> a, tools |-> t]
    ELSE LET made == createChatModel(env)
         IN  IF ~made.err.nil
             THEN [agent |-> [done |-> TRUE, model |-> made.model,
                              err |-> made.err, runs |-> a.runs + 1],
                   tools |-> t]
             ELSE LET tt == ensureTools(t, failAt)
                  IN  [agent |-> [done |-> TRUE, model |-> made.model,
                                  err |-> ensureToolsResult(tt.err, tt.list).err,
                                  runs |-> a.runs + 1],
                       tools |-> tt]

\* the package-level variables as the records the operators above work on
AgentNow == [done |-> once.done, model |-> chatModel, err |-> initErr,
             runs |-> initRuns.agent]
ToolsNow == [done |-> toolOnce.done, err |-> toolErr, map |-> toolMap,
             list |-> toolList, runs |-> initRuns.tools]

SetPackage(a, t) ==
    /\ once' = [done |-> a.done, holder |-> 0]
    /\ chatModel' = a.model
    /\ initErr' = a.err
    /\ toolOnce' = [done |-> t.done, holder |-> 0]
    /\ toolErr' = t.err
    /\ toolMap' = t.map
    /\ toolList' = t.list
    /\ initRuns' = [agent |-> a.runs, tools |-> t.runs]

AgentInit ==
    /\ once = Unused
    /\ chatModel = "nil"
    /\ initErr = NoError
    /\ toolOnce = Unused
    /\ toolErr = NoError
    /\ toolMap = {}
    /\ toolList = <<>>
    /\ initRuns = [agent |-> 0, tools |-> 0]

----------------------------------------------------------------------------
\* RPCService.Query: values

defaultQueryTimeout == 60

\* longest list of tool calls a request or the planning model supplies
MaxToolCalls == 2

queryTimeout(seconds) == IF seconds > 0 THEN seconds ELSE defaultQueryTimeout

NoContext == [timeout |-> 0, expired |-> FALSE]

\* JSON texts: the arguments callers send and the outputs tools return
ToolOutputText(name) == <<"{rows of">> \o name \o <<"}">>

ValidJSON ==
    { <<"{}">>, <<"null">>, <<"{limit:5}">> }
    \cup { ToolOutputText(ensureToolsOrder[k]) : k \in DOMAIN ensureToolsOrder }

NilJSON == [kind |-> "nil", text |-> <<>>]

safeParseJSON(raw) ==
    LET trimmed == TrimSpace(raw)
    IN  IF trimmed \in { <<>>, <<"{}">>, <<"null">> } THEN NilJSON
        ELSE IF trimmed \notin ValidJSON THEN [kind |-> "string", text |-> trimmed]
        ELSE [kind |-> "value", text |-> trimmed]

\* json.Marshal of the args object of a planned tool command
Marshal(args) ==
    IF args = "nil" THEN <<>>
    ELSE IF args = "empty" THEN <<"{}">>
    ELSE <<"{limit:5}">>

\* reply.kind: "bad_json", "refusal" (can_answer false), "tools"
planFromReply(reply) ==
    IF reply.kind = "bad_json"
    THEN [tools |-> <<>>, refusal |-> <<>>,
          err |-> Errorf(<<"parse LLM plan response failed">>,
                         errorsNew(<<"Unmarshal">>))]
    ELSE IF reply.kind = "refusal"
    THEN [tools |-> <<>>,
          refusal |-> IF reply.reason # <<>>
                      THEN <<"cannot handle the request:">> \o reply.reason
                      ELSE <<"the request is beyond the tools">>,
          err |-> NoError]
    ELSE LET Named(cmd) == TrimSpace(cmd.Name) # <<>>
             kept == SelectSeq(reply.tools, Named)
         IN  [tools |-> [i \in 1..Len(kept) |->
                            [Name |-> kept[i].Name, Args |-> Marshal(kept[i].Args),
                             Reason |-> kept[i].Reason]],
              refusal |-> <<>>, err |-> NoError]

\* descErr: what ToolDescriptors returned; genErr: what Generate returned
planWithLLM(descErr, genErr, reply) ==
    IF ~descErr.nil THEN [tools |-> <<>>, refusal |-> <<>>, err |-> descErr]
    ELSE IF ~genErr.nil
    THEN [tools |-> <<>>, refusal |-> <<>>,
          err |-> Errorf(<<"request LLM planning failed">>, genErr)]
    ELSE planFromReply(reply)

\* faulty variant of planOrError: a refusal is not looked at
planOrErrorIgnoresRefusal(p) ==
    IF ~p.err.nil
    THEN [plan |-> <<>>, error |-> <<"plan tools failed", ":">> \o p.err.text]
    ELSE IF Len(p.tools) = 0 THEN [plan |-> <<>>, error |-> <<"no tool available">>]
    ELSE [plan |-> p.tools, error |-> <<>>]

\* what Query makes of the planner's return: the plan to run, or the text it
\* puts in Analysis.Error before returning
planOrError(p) ==
    IF ~p.err.nil
    THEN [plan |-> <<>>, error |-> <<"plan tools failed", ":">> \o p.err.text]
    ELSE IF p.refusal # <<>> THEN [plan |-> <<>>, error |-> p.refusal]
    ELSE IF Len(p.tools) = 0 THEN [plan |-> <<>>, error |-> <<"no tool available">>]
    ELSE [plan |-> p.tools, error |-> <<>>]

\* t: the package's tool state after the ensureTools call CallTool makes;
\* outcome: what the database did ("ok" or "err") when it was asked
CallTool(t, name, expired, outcome) ==
    IF ~ensureToolsResult(t.err, t.list).err.nil
    THEN [output |-> <<>>, err |-> t.err, ran |-> FALSE]
    ELSE IF name \notin t.map
    THEN [output |-> <<>>, err |-> errorsNew(<<"tool not found", ":">> \o name),
          ran |-> FALSE]
    ELSE IF expired
    THEN [output |-> <<>>, err |-> DeadlineExceeded, ran |-> TRUE]
    ELSE IF outcome = "ok"
    THEN [output |-> ToolOutputText(name), err |-> NoError, ran |-> TRUE]
    ELSE [output |-> <<>>, err |-> errorsNew(<<"query failed">>), ran |-> TRUE]

toolRun(spec, res) ==
    [Name |-> spec.Name, Reason |-> spec.Reason,
     Input |-> safeParseJSON(spec.Args),
     Output |-> IF res.err.nil THEN safeParseJSON(res.output) ELSE NilJSON,
     Error |-> res.err.text]

failureOf(spec, res) == <<"tool">> \o spec.Name \o <<"failed", ":">> \o res.err.text

\* toolOutputs: one entry per run that succeeded
toolOutputsOf(runs) ==
    LET Ok(run) == run.Error = <<>>
        kept == SelectSeq(runs, Ok)
    IN  [i \in 1..Len(kept) |-> [name |-> kept[i].Name, output |-> kept[i].Output]]

\* reply.kind: "call_failed", "nil_result", "content"
analyzeWithLLM(genErr, reply) ==
    IF ~genErr.nil
    THEN [content |-> <<>>, err |-> Errorf(<<"LLM analysis failed">>, genErr)]
    ELSE IF reply.kind = "nil_result"
    THEN [content |-> <<>>, err |-> errorsNew(<<"LLM returned nothing">>)]
    ELSE [content |-> reply.content, err |-> NoError]

\* what Generate returns when the model call ends: the context's error once
\* the deadline has passed, else what the endpoint did
generateError(expired, reply) ==
    IF expired THEN DeadlineExceeded
    ELSE IF reply.kind = "call_failed" THEN errorsNew(<<"model unreachable">>)
    ELSE NoError

----------------------------------------------------------------------------
\* RPCService.Query: inputs

RPCQuestions == { <<" ", "\n">>, <<"why", " ", "slow?">> }

TimeoutChoices == {-1, 0, 5}

ToolCallChoices ==
    { [Name |-> <<"mysql_processlist">>, Args |-> <<"{limit:5}">>,
       Reason |-> <<"sessions">>],
      [Name |-> <<"mysql_innodb_trx">>, Args |-> <<>>, Reason |-> <<>>],
      [Name |-> <<"show_status">>, Args |-> <<" ", "{}">>, Reason |-> <<" ">>] }

ToolCallsUpTo(n) == UNION {[1..k -> ToolCallChoices] : k \in 0..n}

QueryRequests ==
    { [Query |-> q, Tools |-> t, TimeoutSeconds |-> s] :
        q \in RPCQuestions, t \in ToolCallsUpTo(MaxToolCalls), s \in TimeoutChoices }

PlannedChoices ==
    { [Name |-> <<"mysql_processlist">>, Args |-> "limit", Reason |-> <<"sessions">>],
      [Name |-> <<"mysql_slow_queries">>, Args |-> "nil", Reason |-> <<>>],
      [Name |-> <<" ">>, Args |-> "empty", Reason |-> <<"nothing">>] }

RPCPlannerReplies ==
    { [kind |-> k, reason |-> <<>>, tools |-> <<>>] :
        k \in {"call_failed", "bad_json", "refusal"} }
    \cup { [kind |-> "refusal", reason |-> <<"not about MySQL">>, tools |-> <<>>] }
    \cup { [kind |-> "tools", reason |-> <<>>, tools |-> t] :
             t \in UNION {[1..k -> PlannedChoices] : k \in 0..MaxToolCalls} }

AnalysisReplies ==
    { [kind |-> k, content |-> <<>>] : k \in {"call_failed", "nil_result"} }
    \cup { [kind |-> "content", content |-> c] : c \in { <<>>, <<"diagnosis">> } }

NoRequest == [Query |-> <<>>, Tools |-> <<>>, TimeoutSeconds |-> 0]
NoRaw == [set |-> FALSE, tool_outputs |-> <<>>, llm_error |-> <<>>]
\* the reply value net/rpc hands to the method: the zero QueryResponse
ZeroRPCResponse ==
    [Analysis |-> [Summary |-> <<>>, Error |-> <<>>], ToolRuns |-> <<>>, Raw |-> NoRaw]
NoRPCCalls == [plan |-> 0, analysis |-> 0]
\* planWithLLM not called, and what it returned once it was
NoPlanning == [called |-> FALSE, tools |-> <<>>, refusal |-> <<>>, err |-> NoError]
planningReturned(p) ==
    [called |-> TRUE, tools |-> p.tools, refusal |-> p.refusal, err |-> p.err]

RPCIdle ==
    /\ rpcPc = "idle"
    /\ req = NoRequest
    /\ ctx = NoContext
    /\ rpcPlan = <<>>
    /\ rpcPlanned = NoPlanning
    /\ rpcIdx = 0
    /\ toolRuns = <<>>
    /\ failure = <<>>
    /\ rpcResp = ZeroRPCResponse
    /\ rpcFault = NoError
    /\ rpcCalls = NoRPCCalls
    /\ rpcInvoked = <<>>

RPCInit == host = "boot" /\ RPCIdle

----------------------------------------------------------------------------
\* concurrent callers of the package

\* goroutines that call into the package at the same time
NumCallers == 2

Callers == 1..NumCallers

NotSeen ==
    [agent |-> [got |-> FALSE, model |-> "nil", err |-> NoError],
     tools |-> [got |-> FALSE, tools |-> <<>>, err |-> NoError]]

CallersInit ==
    /\ cpc = [c \in Callers |-> "idle"]
    /\ called = [c \in Callers |-> "none"]
    /\ observed = [c \in Callers |-> NotSeen]

----------------------------------------------------------------------------
\* the database behind the tools, and executePlan run twice over one plan

InitializedToolNames == {InitializeToolsOrder[i] : i \in DOMAIN InitializeToolsOrder}

\* what the statement of each tool meets: "ok" (rows come back) or "err" (the
\* statement fails)
Databases == [InitializedToolNames -> {"ok", "err"}]

Healthy == [t \in InitializedToolNames |-> "ok"]

\* faulty variant of dbQuery: a statement that succeeded cannot be repeated
dbQueryConsuming(state, tool) ==
    [outcome |-> state[tool], state |-> [state EXCEPT ![tool] = "err"]]

\* t.db.Query of the SELECT or SHOW statement of a tool: what it returns, and
\* the database it leaves behind (the statements only read)
dbQuery(state, tool) == [outcome |-> state[tool], state |-> state]

\* the plans executePlan is handed: generateToolPlan and defaultPlan both end
\* with normalizePlan
NormalizedPlans == {normalizePlan(p) : p \in PlansUpTo(MaxPlanLen)}

NotRunning ==
    [plan |-> <<>>, pass |-> 0, idx |-> 0, results |-> <<>>, first |-> <<>>,
     changed |-> FALSE]

----------------------------------------------------------------------------
\* generateToolPlan on its own: the client, the HTTP exchange, the completion

\* how the exchange of Client.ChatWithBody ends
HTTPOutcomes ==
    {"no_api_key", "send_failed", "read_failed", "status_500", "status_204",
     "bad_body", "ok"}

\* Client.ChatWithBody: an error unless the key is set, the request was sent,
\* the body was read, the status is 200 and the body parses
ChatWithBody(http, reply) ==
    IF http # "ok" THEN [kind |-> "call_failed", steps |-> <<>>] ELSE reply

\* the completions a 200 response can carry
ChatResponses == {r \in PlannerReplies : r.kind # "call_failed"}

PlannerIdle ==
    [clientIsNil |-> FALSE, http |-> "ok",
     reply |-> [kind |-> "empty_choices", steps |-> <<>>],
     out |-> NotPlanned, done |-> FALSE]

PlannerInputs ==
    { [clientIsNil |-> c, http |-> h, reply |-> r, out |-> NotPlanned,
       done |-> FALSE] :
        c \in BOOLEAN, h \in HTTPOutcomes, r \in ChatResponses }

PureInit ==
    /\ db = Healthy
    /\ rerun = NotRunning
    /\ planner = PlannerIdle

----------------------------------------------------------------------------
\* ToolRegistry with the tools it holds: a map from definition name to the
\* tool registered under it

MaxRegistrations == 3

\* a tool as a constructor returns it: every construction is a new object
NewTool(name, serial) == [def |-> name, inst |-> serial]

NilTool == [def |-> <<>>, inst |-> 0]

NewToolRegistry == [n \in {} |-> NilTool]

\* faulty variant of RegisterToolValue: an earlier registration is kept
RegisterToolKeepsFirst(tools, tool) ==
    LET key == GetDefinition(tool.def).Name
    IN  [n \in DOMAIN tools \cup {key} |->
            IF n \in DOMAIN tools THEN tools[n] ELSE tool]

\* r.tools[def.Function.Name] = tool
RegisterToolValue(tools, tool) ==
    LET key == GetDefinition(tool.def).Name
    IN  [n \in DOMAIN tools \cup {key} |-> IF n = key THEN tool ELSE tools[n]]

\* tool, exists := r.tools[name]
GetToolValue(tools, name) ==
    IF name \in DOMAIN tools
    THEN [tool |-> tools[name], exists |-> TRUE]
    ELSE [tool |-> NilTool, exists |-> FALSE]

\* the names a caller can ask for: the four tools and one no tool has
LookupNames == InitializedToolNames \cup {<<"innodb_trx">>}

NoRegistryCall ==
    [op |-> "none", name |-> <<>>, tool |-> NilTool, exists |-> FALSE,
     defs |-> <<>>]

RegistryIdle == [tools |-> NewToolRegistry, log |-> <<>>, last |-> NoRegistryCall]

----------------------------------------------------------------------------
\* deepseek.Client: where its key comes from, and what a call does with it

MaxChatCalls == 2

\* os.Getenv("DEEPSEEK_API_KEY"): "" when unset or empty; the value is not
\* trimmed
EnvKeys == {"", " ", "sk-env"}

\* config.AppConfig: nil, or loaded with or without deepseek.api_key
AppConfigs ==
    { [isNil |-> TRUE, APIKey |-> ""],
      [isNil |-> FALSE, APIKey |-> ""],
      [isNil |-> FALSE, APIKey |-> "sk-config"] }

\* faulty variant of NewClient: the configuration is asked first
NewClientConfigFirst(env, cfg) ==
    LET fromCfg == IF cfg.isNil THEN "" ELSE cfg.APIKey
    IN  IF fromCfg # ""
        THEN [APIKey |-> fromCfg, keySource |-> "config"]
        ELSE [APIKey |-> env, keySource |-> "env"]

NewClient(env, cfg) ==
    IF env = "" /\ ~cfg.isNil
    THEN [APIKey |-> cfg.APIKey, keySource |-> "config"]
    ELSE [APIKey |-> env, keySource |-> "env"]

\* how a call of ChatWithBody by this client ends, given what the network and
\* the endpoint would do with a request
chatExchange(c, net) == IF c.APIKey = "" THEN "no_api_key" ELSE net

\* httpClient.Do was reached
requestSent(exchange) == exchange # "no_api_key"

NetworkOutcomes == HTTPOutcomes \ {"no_api_key"}

\* the completions of the endpoint used here: no plan or a plan of one step
ChatBodies == {r \in ChatResponses : Len(r.steps) <= 1}

NoChatResult == [kind |-> "none", steps |-> <<>>]

ClientUnbuilt ==
    [env |-> "", cfg |-> [isNil |-> TRUE, APIKey |-> ""], built |-> FALSE,
     client |-> [APIKey |-> "", keySource |-> "env"],
     calls |-> 0, sent |-> <<>>, last |-> NoChatResult]

----------------------------------------------------------------------------
\* the backend's queryAgent: the calling goroutine, the goroutine it starts
\* for client.Call, and the channel between them

\* faulty variant of makeDone: the channel has no buffer
makeDoneUnbuffered == [buf |-> <<>>, cap |-> 0]

\* done := make(chan error, 1)
makeDone == [buf |-> <<>>, cap |-> 1]

\* a send proceeds when the buffer has room
canSend(ch) == Len(ch.buf) < ch.cap

\* a receive proceeds on a buffered value, or on a sender blocked on a
\* channel without buffer
canReceive(ch, senderBlocked) == ch.buf # <<>> \/ (ch.cap = 0 /\ senderBlocked)

\* config.AppConfig of the backend: nil, or loaded with or without agent.timeout
BackendConfigs == {"nil", "no_timeout", "timeout"}

\* models.AgentQueryResponse{}
EmptyAgentResponse == [Answer |-> ""]

AgentReplies == {[Answer |-> "diagnosis"]}

NotReturned == [kind |-> "none", resp |-> EmptyAgentResponse]

\* return of queryAgent: the response and the kind of error (or "reply")
returnOf(kind, response) == [kind |-> kind, resp |-> response]

QueryAgentIdle ==
    [cfg |-> "nil", ctxDeadline |-> FALSE, pc |-> "idle", gpc |-> "none",
     ctxDone |-> FALSE, connClosed |-> FALSE, done |-> makeDone,
     callErr |-> "none", rpcResp |-> EmptyAgentResponse, result |-> NotReturned,
     returns |-> 0, events |-> <<>>, ready |-> {}]

----------------------------------------------------------------------------
\* runRPCServer: the listener, the goroutine of acceptLoop and the channel
\* it reports on

\* connections accepted, and temporary accept errors, in one run
MaxConns == 2
MaxTemporaryErrors == 2

\* faulty variant of makeErrCh: the channel has no buffer
makeErrChUnbuffered == [buf |-> <<>>, cap |-> 0]

\* errCh := make(chan error, 1)
makeErrCh == [buf |-> <<>>, cap |-> 1]

\* errors.Is(err, net.ErrClosed): the error acceptLoop returns once the
\* context is done, and the one Accept returns on a closed listener
isErrClosed(err) == err \in {"ErrClosed", "closed"}

\* what runRPCServer returns for an error received from acceptLoop
serverResult(err, ctxDone) ==
    IF isErrClosed(err) THEN "nil"
    ELSE IF err # "nil" /\ ctxDone THEN "nil"
    ELSE err

\* what acceptLoop does with an error of Accept: "return" with an error, or
\* "continue"
acceptLoopOnError(err, ctxDone) ==
    IF ctxDone THEN [do |-> "return", err |-> "ErrClosed"]
    ELSE IF err = "temporary" THEN [do |-> "continue", err |-> "nil"]
    ELSE [do |-> "return", err |-> err]

ServerIdle ==
    [pc |-> "start", lpc |-> "none", ctxDone |-> FALSE, listener |-> "none",
     errCh |-> makeErrCh, aerr |-> "nil", lret |-> "nil", result |-> "none",
     returns |-> 0, accepted |-> 0, temporary |-> 0]

----------------------------------------------------------------------------
\* CreateUserWithPrivileges: the statements it sends to the admin database

\* longest list of databases in a request
MaxDatabases == 2

\* the backquote character, as a token of a name or of a statement
Backquote == "backquote"

\* strings.ReplaceAll(safe, backquote, "")
withoutBackticks(name) == SelectSeq(name, LAMBDA c : c # Backquote)

\* the scope of the GRANT for one entry of req.Databases; none for a blank name
grantScope(dbName) ==
    IF dbName = <<"*">> THEN [skip |-> FALSE, scope |-> <<"*.*">>]
    ELSE LET safe == TrimSpace(dbName)
         IN  IF safe = <<>> THEN [skip |-> TRUE, scope |-> <<>>]
             ELSE [skip |-> FALSE,
                   scope |-> <<Backquote>> \o withoutBackticks(safe)
                             \o <<Backquote, ".*">>]

statement(verb, scope, withGrant) ==
    [verb |-> verb, scope |-> scope, grantOption |-> withGrant]

\* the GRANT statements of the loop over req.Databases
RECURSIVE grantStatements(_, _)
grantStatements(dbs, withGrant) ==
    IF dbs = <<>> THEN <<>>
    ELSE LET g == grantScope(Head(dbs))
         IN  (IF g.skip THEN <<>> ELSE <<statement("GRANT", g.scope, withGrant)>>)
             \o grantStatements(Tail(dbs), withGrant)

\* the statements of one call, in the order of the ExecContext calls
statementsOf(r) ==
    <<statement("CREATE USER", <<>>, FALSE), statement("ALTER USER", <<>>, FALSE)>>
    \o grantStatements(r.Databases, r.WithGrant)
    \o <<statement("FLUSH PRIVILEGES", <<>>, FALSE)>>

\* the text in front of the driver's error
failurePrefix(stmt) ==
    CASE stmt.verb = "CREATE USER" -> <<"create user failed">>
      [] stmt.verb = "ALTER USER" -> <<"alter user failed">>
      [] stmt.verb = "GRANT" -> <<"grant on">> \o stmt.scope \o <<"failed">>
      [] OTHER -> <<"flush privileges failed">>

\* faulty variant of afterExec: the error of a statement is not looked at
afterExecIgnoringError(k, outcome) == [next |-> k + 1, failed |-> FALSE]

\* if _, err := db.ExecContext(...); err != nil { return ... }
afterExec(k, outcome) ==
    IF outcome = "ok" THEN [next |-> k + 1, failed |-> FALSE]
    ELSE [next |-> k, failed |-> TRUE]

\* StandardResponse of CreateUser
createUserResponse(err) ==
    IF err # <<>>
    THEN [Success |-> FALSE, Error |-> "OPERATION_FAILED", ErrorMessage |-> err]
    ELSE [Success |-> TRUE, Error |-> "NO_ERROR",
          ErrorMessage |-> <<"Operation completed successfully">>]

DatabaseNameChoices ==
    { <<"db1">>, <<" ", "db2", " ">>, <<"*">>, <<" ">>, <<Backquote, "db1", Backquote>> }

CreateUserRequests ==
    { [Databases |-> d, WithGrant |-> g] :
        d \in UNION {[1..k -> DatabaseNameChoices] : k \in 0..MaxDatabases},
        g \in BOOLEAN }

NoUserResponse == [Success |-> FALSE, Error |-> "", ErrorMessage |-> <<>>]

CreateUserIdle ==
    [req |-> [Databases |-> <<>>, WithGrant |-> FALSE], pc |-> "idle", k |-> 0,
     issued |-> <<>>, outcomes |-> <<>>, applied |-> <<>>, err |-> <<>>,
     response |-> NoUserResponse]

BackendInit ==
    /\ reg = RegistryIdle
    /\ deepseek = ClientUnbuilt
    /\ qa = QueryAgentIdle
    /\ server = ServerIdle
    /\ usr = CreateUserIdle

----------------------------------------------------------------------------
\* the process: the Service is either the zero value main registers, or the
\* one NewService builds

Init ==
    /\ svc = "unset"
    /\ registry = {}
    /\ pc = "boot"
    /\ question = <<>>
    /\ toolDefs = <<>>
    /\ planned = NotPlanned
    /\ plan = <<>>
    /\ idx = 0
    /\ executions = <<>>
    /\ invoked = <<>>
    /\ llmCalls = NoCalls
    /\ payload = NoPayload
    /\ summary = NotSummarized
    /\ resp = ZeroResponse
    /\ fault = "none"
    /\ AgentInit
    /\ CallersInit
    /\ RPCInit
    /\ BackendInit
    /\ PureInit

requestLocals == <<question, toolDefs, planned, plan, idx, executions, invoked,
                   llmCalls, payload, summary, resp, fault>>

\* main registers a zero-valued Service: nil registry, nil client
Main ==
    /\ UNCHANGED packageVars
    /\ pc = "boot"
    /\ svc' = "zero"
    /\ registry' = {}
    /\ pc' = "idle"
    /\ UNCHANGED requestLocals

\* NewService: the client is built, then the four tools in turn; failAt is the
\* constructor whose database connection fails (0: none)
NewService ==
    /\ UNCHANGED packageVars
    /\ pc = "boot"
    /\ \E failAt \in 0..Len(InitializeToolsOrder) :
         LET made == InitializeTools(failAt)
         IN  IF made.err.nil
             THEN svc' = "ready" /\ registry' = made.tools /\ pc' = "idle"
             ELSE svc' = "failed" /\ registry' = {} /\ pc' = "exited"
    /\ UNCHANGED requestLocals

\* faulty variant of isEmptyQuery: the question is not trimmed
isEmptyQueryUntrimmed(q) == q = <<>>

isEmptyQuery(q) == TrimSpace(q) = <<>>

\* Service.Query up to the planning completion call
QueryStart ==
    /\ UNCHANGED packageVars
    /\ pc = "idle"
    /\ \E q \in Questions :
         /\ question' = q
         /\ IF isEmptyQuery(q)
            THEN /\ resp' = [ZeroResponse EXCEPT !.Answer =
                                 [text |-> GuidanceAnswer, dump |-> EmptyMap]]
                 /\ fault' = "nil"
                 /\ pc' = "responded"
                 /\ llmCalls' = NoCalls
                 /\ toolDefs' = <<>>
            ELSE IF svc # "ready"
            THEN \* s.toolRegistry is nil: GetToolDefinitions dereferences it
                 /\ resp' = ZeroResponse
                 /\ fault' = "none"
                 /\ pc' = "panicked"
                 /\ llmCalls' = NoCalls
                 /\ toolDefs' = <<>>
            ELSE /\ resp' = ZeroResponse
                 /\ fault' = "none"
                 /\ pc' = "planning"
                 /\ llmCalls' = [plan |-> 1, summary |-> 0]
                 /\ toolDefs' \in GetToolDefinitions(registry)
    /\ planned' = NotPlanned
    /\ plan' = <<>>
    /\ idx' = 0
    /\ executions' = <<>>
    /\ invoked' = <<>>
    /\ payload' = NoPayload
    /\ summary' = NotSummarized
    /\ UNCHANGED <<svc, registry>>

\* the planning call returns; fallbacks applied; executePlan entered
PlanReturn ==
    /\ UNCHANGED packageVars
    /\ pc = "planning"
    /\ \E reply \in PlannerReplies :
         /\ planned' = generateToolPlan(FALSE, reply)
         /\ plan' = effectivePlan(generateToolPlan(FALSE, reply), toolDefs)
    /\ idx' = 1
    /\ executions' = <<>>
    /\ pc' = "executing"
    /\ UNCHANGED <<svc, registry, question, toolDefs, invoked, llmCalls, payload,
                   summary, resp, fault>>

\* one iteration of the loop of executePlan
ExecStep ==
    /\ UNCHANGED packageVars
    /\ pc = "executing"
    /\ idx <= Len(plan)
    /\ \E outcome \in {"ok", "err"} :
         LET result == executeStep(registry, plan[idx], outcome)
         IN  /\ executions' = appendResult(executions, result)
             /\ idx' = nextStep(idx, Len(plan), result)
             /\ invoked' = IF GetTool(registry, plan[idx].Tool)
                           THEN Append(invoked, [tool |-> plan[idx].Tool,
                                                 outcome |-> outcome,
                                                 deadline |-> NoDeadline])
                           ELSE invoked
    /\ UNCHANGED <<svc, registry, pc, question, toolDefs, planned, plan,
                   llmCalls, payload, summary, resp, fault>>

\* faulty variant of StartSummary: the summarization call does not wait for
\* the loop of executePlan to end
StartSummaryEarly ==
    /\ UNCHANGED packageVars
    /\ pc = "executing"
    /\ resp' = [resp EXCEPT !.Sources = buildSources(executions),
                            !.Raw = buildRaw(executions)]
    /\ payload' = summaryPayload(TrimSpace(question), plan, executions, toolDefs)
    /\ llmCalls' = [llmCalls EXCEPT !.summary = @ + 1]
    /\ pc' = "summarizing"
    /\ UNCHANGED <<svc, registry, question, toolDefs, planned, plan, idx,
                   executions, invoked, summary, fault>>

\* executePlan returns; sources and raw are set; the summarization call is made
StartSummary ==
    /\ UNCHANGED packageVars
    /\ pc = "executing"
    /\ idx > Len(plan)
    /\ resp' = [resp EXCEPT !.Sources = buildSources(executions),
                            !.Raw = buildRaw(executions)]
    /\ payload' = summaryPayload(TrimSpace(question), plan, executions, toolDefs)
    /\ llmCalls' = [llmCalls EXCEPT !.summary = @ + 1]
    /\ pc' = "summarizing"
    /\ UNCHANGED <<svc, registry, question, toolDefs, planned, plan, idx,
                   executions, invoked, summary, fault>>

\* faulty variant of SummaryReturn: a failed summarization call is made again
SummaryReturnRetrying ==
    /\ UNCHANGED packageVars
    /\ pc = "summarizing"
    /\ \E reply \in SummaryReplies :
         LET got == generateDBASummary(FALSE, reply)
         IN  IF ~got.err.nil /\ llmCalls.summary < 2
             THEN /\ llmCalls' = [llmCalls EXCEPT !.summary = @ + 1]
                  /\ UNCHANGED <<summary, resp, fault, pc>>
             ELSE /\ summary' = got
                  /\ resp' = [resp EXCEPT !.Answer =
                               IF ~got.err.nil
                               THEN buildFallbackAnswer(executions)
                               ELSE [text |-> got.answer, dump |-> EmptyMap]]
                  /\ fault' = "nil"
                  /\ pc' = "responded"
                  /\ UNCHANGED llmCalls
    /\ UNCHANGED <<svc, registry, question, toolDefs, planned, plan, idx,
                   executions, invoked, payload>>

\* the summarization call returns; the answer is the model's text or the dump
SummaryReturn ==
    /\ UNCHANGED packageVars
    /\ pc = "summarizing"
    /\ \E reply \in SummaryReplies :
         LET got == generateDBASummary(FALSE, reply)
         IN  /\ summary' = got
             /\ resp' = [resp EXCEPT !.Answer =
                          IF ~got.err.nil
                          THEN buildFallbackAnswer(executions)
                          ELSE [text |-> got.answer, dump |-> EmptyMap]]
    /\ fault' = "nil"
    /\ pc' = "responded"
    /\ UNCHANGED <<svc, registry, question, toolDefs, planned, plan, idx,
                   executions, invoked, llmCalls, payload>>

\* the reply is written back and the connection's codec reads the next request
NextRequest ==
    /\ UNCHANGED packageVars
    /\ pc = "responded"
    /\ pc' = "idle"
    /\ question' = <<>>
    /\ toolDefs' = <<>>
    /\ planned' = NotPlanned
    /\ plan' = <<>>
    /\ idx' = 0
    /\ executions' = <<>>
    /\ invoked' = <<>>
    /\ llmCalls' = NoCalls
    /\ payload' = NoPayload
    /\ summary' = NotSummarized
    /\ resp' = ZeroResponse
    /\ fault' = "none"
    /\ UNCHANGED <<svc, registry>>

Next ==
    \/ Main
    \/ NewService
    \/ QueryStart
    \/ PlanReturn
    \/ ExecStep
    \/ StartSummary
    \/ SummaryReturn
    \/ NextRequest

Spec == Init /\ [][Next]_vars

----------------------------------------------------------------------------
\* The facade over any registry the ToolRegistry interface can build from the
\* four tool implementations (RegisterTool called for any of them).

InitCatalog ==
    /\ svc = "ready"
    /\ registry \in SUBSET {InitializeToolsOrder[i] : i \in DOMAIN InitializeToolsOrder}
    /\ pc = "idle"
    /\ question = <<>>
    /\ toolDefs = <<>>
    /\ planned = NotPlanned
    /\ plan = <<>>
    /\ idx = 0
    /\ executions = <<>>
    /\ invoked = <<>>
    /\ llmCalls = NoCalls
    /\ payload = NoPayload
    /\ summary = NotSummarized
    /\ resp = ZeroResponse
    /\ fault = "none"
    /\ AgentInit
    /\ CallersInit
    /\ RPCInit
    /\ BackendInit
    /\ PureInit

NextCatalog ==
    \/ QueryStart
    \/ PlanReturn
    \/ ExecStep
    \/ StartSummary
    \/ SummaryReturn
    \/ NextRequest

SpecCatalog == InitCatalog /\ [][NextCatalog]_vars

----------------------------------------------------------------------------
\* Goroutines calling initAgent and ensureTools at the same time.  A caller
\* that finds the mutex of a sync.Once held has no step until it is released.

Moved(c, to) == cpc' = [cpc EXCEPT ![c] = to]

\* ChatModel, Generate and Tools go through initAgent
CallInitAgent(c) ==
    /\ cpc[c] = "idle"
    /\ Moved(c, "once.Do")
    /\ called' = [called EXCEPT ![c] = "initAgent"]
    /\ UNCHANGED <<observed, agentVars, facadeVars, pureVars, backendVars, rpcVars>>

\* CallTool, ToolDescriptors, ToolNames and RegisteredTools go through ensureTools
CallEnsureTools(c) ==
    /\ cpc[c] = "idle"
    /\ Moved(c, "toolOnce.Do")
    /\ called' = [called EXCEPT ![c] = "ensureTools"]
    /\ UNCHANGED <<observed, agentVars, facadeVars, pureVars, backendVars, rpcVars>>

\* once.Do of initAgent: the body is skipped, or entered with createChatModel;
\* a failing createChatModel ends the body, else ensureTools is called
OnceDo(c) ==
    /\ cpc[c] = "once.Do"
    /\ IF doSkipsBody(once)
       THEN /\ Moved(c, "initAgent.return")
            /\ UNCHANGED agentVars
       ELSE /\ doRunsBody(once)
            /\ \E env \in Environments :
                 LET made == createChatModel(env)
                 IN  /\ chatModel' = made.model
                     /\ initErr' = made.err
                     /\ IF ~made.err.nil
                        THEN once' = Done /\ Moved(c, "initAgent.return")
                        ELSE once' = [done |-> FALSE, holder |-> c]
                             /\ Moved(c, "toolOnce.Do")
            /\ initRuns' = [initRuns EXCEPT !.agent = @ + 1]
            /\ UNCHANGED <<toolOnce, toolErr, toolMap, toolList>>
    /\ UNCHANGED <<called, observed, facadeVars, pureVars, backendVars, rpcVars>>

\* toolOnce.Do of ensureTools: the body is skipped, or entered with make(map)
ToolOnceDo(c) ==
    /\ cpc[c] = "toolOnce.Do"
    /\ IF doSkipsBody(toolOnce)
       THEN /\ Moved(c, "ensureTools.return")
            /\ UNCHANGED <<toolOnce, toolMap, initRuns>>
       ELSE /\ doRunsBody(toolOnce)
            /\ toolOnce' = [done |-> FALSE, holder |-> c]
            /\ toolMap' = {}
            /\ initRuns' = [initRuns EXCEPT !.tools = @ + 1]
            /\ Moved(c, "registering")
    /\ UNCHANGED <<once, chatModel, initErr, toolErr, toolList, called, observed,
                   facadeVars, pureVars, backendVars, rpcVars>>

\* the next registration of the body of ensureTools, or the end of the body
InferTool(c) ==
    /\ cpc[c] = "registering"
    /\ IF Len(toolList) >= Len(ensureToolsOrder)
       THEN /\ toolOnce' = Done
            /\ Moved(c, "ensureTools.return")
            /\ UNCHANGED <<toolErr, toolMap, toolList>>
       ELSE \E inferOk \in BOOLEAN :
              LET t == registerTool([err |-> toolErr, map |-> toolMap,
                                     list |-> toolList],
                                    ensureToolsOrder[Len(toolList) + 1], inferOk)
              IN  /\ toolErr' = t.err
                  /\ toolMap' = t.map
                  /\ toolList' = t.list
                  /\ IF inferOk
                     THEN UNCHANGED <<toolOnce, cpc>>
                     ELSE toolOnce' = Done /\ Moved(c, "ensureTools.return")
    /\ UNCHANGED <<once, chatModel, initErr, initRuns, called, observed,
                   facadeVars, pureVars, backendVars, rpcVars>>

\* ensureTools returns: to its caller, or into the body of initAgent, which
\* stores the error and ends
EnsureToolsReturn(c) ==
    /\ cpc[c] = "ensureTools.return"
    /\ LET got == ensureToolsResult(toolErr, toolList)
       IN  IF called[c] = "ensureTools"
           THEN /\ observed' = [observed EXCEPT ![c].tools =
                               [got |-> TRUE, tools |-> got.tools, err |-> got.err]]
                /\ Moved(c, "idle")
                /\ called' = [called EXCEPT ![c] = "none"]
                /\ UNCHANGED <<once, initErr>>
           ELSE /\ initErr' = got.err
                /\ once' = Done
                /\ Moved(c, "initAgent.return")
                /\ UNCHANGED <<observed, called>>
    /\ UNCHANGED <<chatModel, toolOnce, toolErr, toolMap, toolList, initRuns,
                   facadeVars, pureVars, backendVars, rpcVars>>

InitAgentReturn(c) ==
    /\ cpc[c] = "initAgent.return"
    /\ LET got == initAgentResult(chatModel, initErr)
       IN  observed' = [observed EXCEPT ![c].agent =
                       [got |-> TRUE, model |-> got.model, err |-> got.err]]
    /\ Moved(c, "idle")
    /\ called' = [called EXCEPT ![c] = "none"]
    /\ UNCHANGED <<agentVars, facadeVars, pureVars, backendVars, rpcVars>>

NextOnce ==
    \/ \E c \in Callers : CallInitAgent(c)
    \/ \E c \in Callers : CallEnsureTools(c)
    \/ \E c \in Callers : OnceDo(c)
    \/ \E c \in Callers : ToolOnceDo(c)
    \/ \E c \in Callers : InferTool(c)
    \/ \E c \in Callers : EnsureToolsReturn(c)
    \/ \E c \in Callers : InitAgentReturn(c)

SpecOnce == Init /\ [][NextOnce]_vars

----------------------------------------------------------------------------
\* The process that serves RPCService.  main calls ChatModel before
\* runRPCServer and exits when it fails; RegisterRPC itself initializes
\* nothing, so a process that registers the service without that call
\* initializes at the first query that needs it.

rpcLocals == <<rpcPc, req, ctx, rpcPlan, rpcPlanned, rpcIdx, toolRuns, failure, rpcResp,
               rpcFault, rpcCalls, rpcInvoked>>

FailurePoints == 0..Len(ensureToolsOrder)

MainRPC ==
    /\ host = "boot"
    /\ \E env \in Environments, failAt \in FailurePoints :
         LET made == initAgent(AgentNow, ToolsNow, env, failAt)
         IN  /\ SetPackage(made.agent, made.tools)
             /\ host' = IF initAgentResult(made.agent.model, made.agent.err).err.nil
                        THEN "warm" ELSE "exited"
    /\ UNCHANGED <<rpcLocals, callerVars, facadeVars, pureVars, backendVars>>

RegisterRPC ==
    /\ host \in {"boot", "warm"}
    /\ host' = "serving"
    /\ UNCHANGED <<rpcLocals, agentVars, callerVars, facadeVars, pureVars, backendVars>>

NoReply == [kind |-> "call_failed", reason |-> <<>>, tools |-> <<>>]
NoAnalysisReply == [kind |-> "call_failed", content |-> <<>>]

\* RPCService.Query up to its first blocking call
RPCQuery ==
    /\ host = "serving"
    /\ rpcPc = "idle"
    /\ \E r \in QueryRequests, env \in Environments, failAt \in FailurePoints :
         /\ req' = r
         /\ IF TrimSpace(r.Query) = <<>>
            THEN /\ rpcFault' = errorsNew(<<"query must not be empty">>)
                 /\ rpcPc' = "responded"
                 /\ ctx' = NoContext
                 /\ rpcPlan' = <<>>
                 /\ rpcPlanned' = NoPlanning
                 /\ rpcIdx' = 0
                 /\ rpcResp' = ZeroRPCResponse
                 /\ rpcCalls' = NoRPCCalls
                 /\ UNCHANGED agentVars
            ELSE /\ rpcFault' = NoError
                 /\ ctx' = [timeout |-> queryTimeout(r.TimeoutSeconds),
                            expired |-> FALSE]
                 /\ IF Len(r.Tools) > 0
                    THEN /\ rpcPlan' = r.Tools
                         /\ rpcPlanned' = NoPlanning
                         /\ rpcIdx' = 1
                         /\ rpcPc' = "executing"
                         /\ rpcResp' = ZeroRPCResponse
                         /\ rpcCalls' = NoRPCCalls
                         /\ UNCHANGED agentVars
                    ELSE \* planWithLLM: ToolDescriptors, then Generate
                         LET t == ensureTools(ToolsNow, failAt)
                             descErr == ensureToolsResult(t.err, t.list).err
                             made == IF descErr.nil
                                     THEN initAgent(AgentNow, t, env, failAt)
                                     ELSE [agent |-> AgentNow, tools |-> t]
                             genErr == IF descErr.nil
                                       THEN initAgentResult(made.agent.model,
                                                            made.agent.err).err
                                       ELSE NoError
                         IN  /\ SetPackage(made.agent, made.tools)
                             /\ rpcPlan' = <<>>
                             /\ rpcIdx' = 0
                             /\ IF descErr.nil /\ genErr.nil
                                THEN /\ rpcPc' = "planning"
                                     /\ rpcCalls' = [plan |-> 1, analysis |-> 0]
                                     /\ rpcResp' = ZeroRPCResponse
                                     /\ rpcPlanned' = NoPlanning
                                ELSE /\ rpcPc' = "responded"
                                     /\ rpcCalls' = NoRPCCalls
                                     /\ rpcPlanned' =
                                          planningReturned(planWithLLM(descErr, genErr,
                                                                       NoReply))
                                     /\ rpcResp' =
                                          [ZeroRPCResponse EXCEPT !.Analysis.Error =
                                             planOrError(planWithLLM(descErr, genErr,
                                                                     NoReply)).error]
    /\ toolRuns' = <<>>
    /\ failure' = <<>>
    /\ rpcInvoked' = <<>>
    /\ UNCHANGED <<host, callerVars, facadeVars, pureVars, backendVars>>

\* the planning call returns
PlanWithLLMReturn ==
    /\ rpcPc = "planning"
    /\ \E reply \in RPCPlannerReplies :
         LET p == planWithLLM(NoError, generateError(ctx.expired, reply), reply)
             q == planOrError(p)
         IN  /\ rpcPlanned' = planningReturned(p)
             /\ IF q.error # <<>>
                THEN /\ rpcResp' = [rpcResp EXCEPT !.Analysis.Error = q.error]
                     /\ rpcPc' = "responded"
                     /\ UNCHANGED <<rpcPlan, rpcIdx>>
                ELSE /\ rpcPlan' = q.plan
                     /\ rpcIdx' = 1
                     /\ rpcPc' = "executing"
                     /\ UNCHANGED rpcResp
    /\ UNCHANGED <<host, req, ctx, toolRuns, failure, rpcFault, rpcCalls, rpcInvoked,
                   agentVars, callerVars, facadeVars, pureVars, backendVars>>

\* faulty variant of CallToolStep: a failing call is recorded and the loop
\* goes on with the next step
CallToolStepContinuing ==
    /\ rpcPc = "executing"
    /\ rpcIdx <= Len(rpcPlan)
    /\ \E failAt \in FailurePoints, outcome \in {"ok", "err"} :
         LET t == ensureTools(ToolsNow, failAt)
             spec == rpcPlan[rpcIdx]
             res == CallTool(t, spec.Name, ctx.expired, outcome)
             runs == Append(toolRuns, toolRun(spec, res))
         IN  /\ SetPackage(AgentNow, t)
             /\ toolRuns' = runs
             /\ rpcInvoked' = IF res.ran
                              THEN Append(rpcInvoked, [tool |-> spec.Name,
                                                       deadline |-> ctx.timeout])
                              ELSE rpcInvoked
             /\ rpcIdx' = rpcIdx + 1
             /\ UNCHANGED <<failure, rpcResp, rpcPc>>
    /\ UNCHANGED <<host, req, ctx, rpcPlan, rpcPlanned, rpcFault, rpcCalls, callerVars, facadeVars, pureVars, backendVars>>

\* one iteration of the loop over plan; a failing call leaves the loop and
\* Query returns with the runs made so far
CallToolStep ==
    /\ rpcPc = "executing"
    /\ rpcIdx <= Len(rpcPlan)
    /\ \E failAt \in FailurePoints, outcome \in {"ok", "err"} :
         LET t == ensureTools(ToolsNow, failAt)
             spec == rpcPlan[rpcIdx]
             res == CallTool(t, spec.Name, ctx.expired, outcome)
             runs == Append(toolRuns, toolRun(spec, res))
         IN  /\ SetPackage(AgentNow, t)
             /\ toolRuns' = runs
             /\ rpcInvoked' = IF res.ran
                              THEN Append(rpcInvoked, [tool |-> spec.Name,
                                                       deadline |-> ctx.timeout])
                              ELSE rpcInvoked
             /\ IF ~res.err.nil
                THEN /\ failure' = failureOf(spec, res)
                     /\ rpcResp' = [rpcResp EXCEPT
                                      !.ToolRuns = runs,
                                      !.Raw = [set |-> TRUE,
                                               tool_outputs |-> toolOutputsOf(runs),
                                               llm_error |-> <<>>],
                                      !.Analysis.Error = failureOf(spec, res)]
                     /\ rpcPc' = "responded"
                     /\ UNCHANGED rpcIdx
                ELSE /\ rpcIdx' = rpcIdx + 1
                     /\ UNCHANGED <<failure, rpcResp, rpcPc>>
    /\ UNCHANGED <<host, req, ctx, rpcPlan, rpcPlanned, rpcFault, rpcCalls, callerVars, facadeVars, pureVars, backendVars>>

\* the loop is over without a failure: the runs are stored and analyzeWithLLM
\* is called
AnalyzeStart ==
    /\ rpcPc = "executing"
    /\ rpcIdx > Len(rpcPlan)
    /\ \E env \in Environments, failAt \in FailurePoints :
         LET made == initAgent(AgentNow, ToolsNow, env, failAt)
             genErr == initAgentResult(made.agent.model, made.agent.err).err
             stored == [rpcResp EXCEPT
                          !.ToolRuns = toolRuns,
                          !.Raw = [set |-> TRUE,
                                   tool_outputs |-> toolOutputsOf(toolRuns),
                                   llm_error |-> <<>>]]
             failed == analyzeWithLLM(genErr, NoAnalysisReply).err.text
         IN  /\ SetPackage(made.agent, made.tools)
             /\ IF genErr.nil
                THEN /\ rpcResp' = stored
                     /\ rpcCalls' = [rpcCalls EXCEPT !.analysis = @ + 1]
                     /\ rpcPc' = "analyzing"
                ELSE /\ rpcResp' = [stored EXCEPT !.Analysis.Error = failed,
                                                  !.Raw.llm_error = failed]
                     /\ rpcPc' = "responded"
                     /\ UNCHANGED rpcCalls
    /\ UNCHANGED <<host, req, ctx, rpcPlan, rpcPlanned, rpcIdx, toolRuns, failure, rpcFault,
                   rpcInvoked, callerVars, facadeVars, pureVars, backendVars>>

\* the analysis call returns
AnalyzeReturn ==
    /\ rpcPc = "analyzing"
    /\ \E reply \in AnalysisReplies :
         LET got == analyzeWithLLM(generateError(ctx.expired, reply), reply)
         IN  rpcResp' = IF got.err.nil
                        THEN [rpcResp EXCEPT !.Analysis.Summary = got.content]
                        ELSE [rpcResp EXCEPT !.Analysis.Error = got.err.text,
                                             !.Raw.llm_error = got.err.text]
    /\ rpcPc' = "responded"
    /\ UNCHANGED <<host, req, ctx, rpcPlan, rpcPlanned, rpcIdx, toolRuns, failure, rpcFault,
                   rpcCalls, rpcInvoked, agentVars, callerVars, facadeVars, pureVars, backendVars>>

\* the deadline of the context passes while the query is under way
ContextExpires ==
    /\ rpcPc \in {"planning", "executing", "analyzing"}
    /\ ~ctx.expired
    /\ ctx' = [ctx EXCEPT !.expired = TRUE]
    /\ UNCHANGED <<host, rpcPc, req, rpcPlan, rpcPlanned, rpcIdx, toolRuns, failure, rpcResp,
                   rpcFault, rpcCalls, rpcInvoked, agentVars, callerVars, facadeVars, pureVars, backendVars>>

\* the reply is written back and the connection's codec reads the next request
RPCNextRequest ==
    /\ rpcPc = "responded"
    /\ rpcPc' = "idle"
    /\ req' = NoRequest
    /\ ctx' = NoContext
    /\ rpcPlan' = <<>>
    /\ rpcPlanned' = NoPlanning
    /\ rpcIdx' = 0
    /\ toolRuns' = <<>>
    /\ failure' = <<>>
    /\ rpcResp' = ZeroRPCResponse
    /\ rpcFault' = NoError
    /\ rpcCalls' = NoRPCCalls
    /\ rpcInvoked' = <<>>
    /\ UNCHANGED <<host, agentVars, callerVars, facadeVars, pureVars, backendVars>>

NextRPC ==
    \/ MainRPC
    \/ RegisterRPC
    \/ RPCQuery
    \/ PlanWithLLMReturn
    \/ CallToolStep
    \/ AnalyzeStart
    \/ AnalyzeReturn
    \/ ContextExpires
    \/ RPCNextRequest

SpecRPC == Init /\ [][NextRPC]_vars

----------------------------------------------------------------------------
\* executePlan run twice over one plan by a constructed Service, with the
\* database changing at most once in between.

\* a constructed Service with no request under way
ServiceReady ==
    /\ svc = "ready"
    /\ registry = InitializeTools(0).tools
    /\ pc = "idle"
    /\ question = <<>>
    /\ toolDefs = <<>>
    /\ planned = NotPlanned
    /\ plan = <<>>
    /\ idx = 0
    /\ executions = <<>>
    /\ invoked = <<>>
    /\ llmCalls = NoCalls
    /\ payload = NoPayload
    /\ summary = NotSummarized
    /\ resp = ZeroResponse
    /\ fault = "none"
    /\ AgentInit
    /\ CallersInit
    /\ RPCInit

InitRerun ==
    /\ ServiceReady
    /\ BackendInit
    /\ planner = PlannerIdle
    /\ db \in Databases
    /\ rerun \in { [plan |-> p, pass |-> 1, idx |-> 1, results |-> <<>>,
                    first |-> <<>>, changed |-> FALSE] : p \in NormalizedPlans }

\* one iteration of the loop of executePlan
RerunStep ==
    /\ rerun.pass \in {1, 2}
    /\ rerun.idx <= Len(rerun.plan)
    /\ LET step == rerun.plan[rerun.idx]
           asked == GetTool(registry, step.Tool)
           got == IF asked THEN dbQuery(db, step.Tool)
                  ELSE [outcome |-> "err", state |-> db]
           result == executeStep(registry, step, got.outcome)
       IN  /\ rerun' = [rerun EXCEPT
                          !.results = appendResult(@, result),
                          !.idx = nextStep(@, Len(rerun.plan), result)]
           /\ db' = got.state
    /\ UNCHANGED <<planner, facadeVars, agentVars, callerVars, rpcVars, backendVars>>

\* executePlan has returned and is called again with the same plan
RerunAgain ==
    /\ rerun.pass = 1
    /\ rerun.idx > Len(rerun.plan)
    /\ rerun' = [rerun EXCEPT !.pass = 2, !.idx = 1, !.first = rerun.results,
                              !.results = <<>>]
    /\ UNCHANGED <<db, planner, facadeVars, agentVars, callerVars, rpcVars, backendVars>>

\* the database changes under the agent: a statement that worked now fails,
\* or one that failed now works
DatabaseChanges ==
    /\ rerun.pass \in {1, 2}
    /\ ~(rerun.pass = 2 /\ rerun.idx > Len(rerun.plan))
    /\ ~rerun.changed
    /\ \E t \in InitializedToolNames :
         db' = [db EXCEPT ![t] = IF @ = "ok" THEN "err" ELSE "ok"]
    /\ rerun' = [rerun EXCEPT !.changed = TRUE]
    /\ UNCHANGED <<planner, facadeVars, agentVars, callerVars, rpcVars, backendVars>>

NextRerun ==
    \/ RerunStep
    \/ RerunAgain
    \/ DatabaseChanges

SpecRerun == InitRerun /\ [][NextRerun]_vars

----------------------------------------------------------------------------
\* generateToolPlan applied to every outcome of the completion call.

InitPlanner ==
    /\ ServiceReady
    /\ BackendInit
    /\ db = Healthy
    /\ rerun = NotRunning
    /\ planner \in PlannerInputs

GenerateToolPlanCall ==
    /\ ~planner.done
    /\ planner' = [planner EXCEPT
                     !.out = generateToolPlan(planner.clientIsNil,
                                              ChatWithBody(planner.http, planner.reply)),
                     !.done = TRUE]
    /\ UNCHANGED <<db, rerun, facadeVars, agentVars, callerVars, rpcVars, backendVars>>

NextPlanner == GenerateToolPlanCall

SpecPlanner == InitPlanner /\ [][NextPlanner]_vars

----------------------------------------------------------------------------
\* The calls of ToolRegistry in any order on a registry NewToolRegistry made.

IdleProcess ==
    /\ ServiceReady
    /\ PureInit

InitRegistry ==
    /\ IdleProcess
    /\ reg = RegistryIdle
    /\ deepseek = ClientUnbuilt
    /\ qa = QueryAgentIdle
    /\ server = ServerIdle
    /\ usr = CreateUserIdle

\* RegisterTool with a tool one of the four constructors has just returned
RegistryRegister ==
    /\ Len(reg.log) < MaxRegistrations
    /\ \E name \in InitializedToolNames :
         LET tool == NewTool(name, Len(reg.log) + 1)
         IN  reg' = [tools |-> RegisterToolValue(reg.tools, tool),
                     log |-> Append(reg.log, tool),
                     last |-> [NoRegistryCall EXCEPT !.op = "register",
                                                     !.name = name,
                                                     !.tool = tool]]
    /\ UNCHANGED outsideReg

RegistryGetTool ==
    /\ \E name \in LookupNames :
         LET got == GetToolValue(reg.tools, name)
         IN  reg' = [reg EXCEPT !.last =
                        [NoRegistryCall EXCEPT !.op = "lookup", !.name = name,
                                               !.tool = got.tool,
                                               !.exists = got.exists]]
    /\ UNCHANGED outsideReg

RegistryGetToolDefinitions ==
    /\ \E defs \in GetToolDefinitions(DOMAIN reg.tools) :
         reg' = [reg EXCEPT !.last = [NoRegistryCall EXCEPT !.op = "list",
                                                            !.defs = defs]]
    /\ UNCHANGED outsideReg

NextRegistry ==
    \/ RegistryRegister
    \/ RegistryGetTool
    \/ RegistryGetToolDefinitions

SpecRegistry == InitRegistry /\ [][NextRegistry]_vars

----------------------------------------------------------------------------
\* A deepseek.Client built under any environment and configuration, then
\* called.

InitClient ==
    /\ IdleProcess
    /\ reg = RegistryIdle
    /\ qa = QueryAgentIdle
    /\ server = ServerIdle
    /\ usr = CreateUserIdle
    /\ deepseek \in { [ClientUnbuilt EXCEPT !.env = e, !.cfg = c] :
                        e \in EnvKeys, c \in AppConfigs }

ClientNew ==
    /\ ~deepseek.built
    /\ deepseek' = [deepseek EXCEPT !.built = TRUE,
                                    !.client = NewClient(deepseek.env, deepseek.cfg)]
    /\ UNCHANGED outsideDeepseek

\* one ChatWithBody; sent logs the Authorization credential of each request
\* that reached httpClient.Do
ClientChat ==
    /\ deepseek.built
    /\ deepseek.calls < MaxChatCalls
    /\ \E net \in NetworkOutcomes, body \in ChatBodies :
         LET exchange == chatExchange(deepseek.client, net)
         IN  deepseek' = [deepseek EXCEPT
                            !.calls = @ + 1,
                            !.sent = IF requestSent(exchange)
                                     THEN Append(@, deepseek.client.APIKey)
                                     ELSE @,
                            !.last = ChatWithBody(exchange, body)]
    /\ UNCHANGED outsideDeepseek

NextClient ==
    \/ ClientNew
    \/ ClientChat

SpecClient == InitClient /\ [][NextClient]_vars

----------------------------------------------------------------------------
\* One call of queryAgent with its goroutine, the caller's context being
\* cancelled at any moment.

InitQueryAgent ==
    /\ IdleProcess
    /\ reg = RegistryIdle
    /\ deepseek = ClientUnbuilt
    /\ server = ServerIdle
    /\ usr = CreateUserIdle
    /\ qa \in { [QueryAgentIdle EXCEPT !.cfg = c, !.ctxDeadline = d] :
                  c \in BackendConfigs, d \in BOOLEAN }

\* queryAgent returns: the deferred Close calls run when there is a connection
queryAgentReturn(kind, response, connected) ==
    [qa EXCEPT !.pc = "returned", !.result = returnOf(kind, response),
               !.returns = @ + 1,
               !.connClosed = IF connected THEN TRUE ELSE @]

QueryAgentStart ==
    /\ qa.pc = "idle"
    /\ qa' = IF qa.cfg = "nil"
             THEN queryAgentReturn("config_error", EmptyAgentResponse, FALSE)
             ELSE [qa EXCEPT !.pc = "dialing"]
    /\ UNCHANGED outsideQa

\* dialer.DialContext: fails when the context is done, or on its own
QueryAgentDial ==
    /\ qa.pc = "dialing"
    /\ \E ok \in BOOLEAN :
         qa' = IF ok /\ ~qa.ctxDone
               THEN [qa EXCEPT !.pc = "connected"]
               ELSE queryAgentReturn("dial_error", EmptyAgentResponse, FALSE)
    /\ UNCHANGED outsideQa

\* conn.SetDeadline when there is a deadline, then the channel is made and the
\* goroutine started
QueryAgentCall ==
    /\ qa.pc = "connected"
    /\ \E ok \in BOOLEAN :
         LET hasDeadline == qa.ctxDeadline \/ qa.cfg = "timeout"
         IN  qa' = IF hasDeadline /\ ~ok
                   THEN queryAgentReturn("deadline_error", EmptyAgentResponse, TRUE)
                   ELSE [qa EXCEPT !.pc = "select", !.gpc = "calling",
                                   !.done = makeDone]
    /\ UNCHANGED outsideQa

\* client.Call returns in the goroutine: the reply is in rpcResp, or an error
\* (the only outcome on a closed connection)
CallReturns ==
    /\ qa.gpc = "calling"
    /\ \E out \in {"nil", "err"}, reply \in AgentReplies :
         /\ qa.connClosed => out = "err"
         /\ qa' = [qa EXCEPT !.gpc = "sending", !.callErr = out,
                             !.rpcResp = IF out = "nil" THEN reply ELSE @]
    /\ UNCHANGED outsideQa

\* done <- err: from here on the result is there for queryAgent
DeliverResult ==
    /\ qa.gpc = "sending"
    /\ canSend(qa.done)
    /\ qa' = [qa EXCEPT !.gpc = "done", !.done.buf = Append(@, qa.callErr),
                        !.events = Append(@, "reply")]
    /\ UNCHANGED outsideQa

\* what select finds ready
readyCases ==
    (IF qa.ctxDone THEN {"cancel"} ELSE {})
    \cup (IF canReceive(qa.done, qa.gpc = "sending") THEN {"done"} ELSE {})

\* case <-ctx.Done()
SelectCancel ==
    /\ qa.pc = "select"
    /\ "cancel" \in readyCases
    /\ qa' = [queryAgentReturn("canceled", EmptyAgentResponse, TRUE)
                EXCEPT !.ready = readyCases]
    /\ UNCHANGED outsideQa

\* case err := <-done
SelectDone ==
    /\ qa.pc = "select"
    /\ "done" \in readyCases
    /\ LET err == IF qa.done.buf # <<>> THEN Head(qa.done.buf) ELSE qa.callErr
           after == IF err = "nil"
                    THEN queryAgentReturn("reply", qa.rpcResp, TRUE)
                    ELSE queryAgentReturn("call_error", EmptyAgentResponse, TRUE)
       IN  qa' = [after EXCEPT
                    !.ready = readyCases,
                    !.done.buf = IF @ # <<>> THEN Tail(@) ELSE @,
                    !.gpc = IF qa.done.buf = <<>> THEN "done" ELSE @,
                    !.events = IF qa.done.buf = <<>> THEN Append(@, "reply") ELSE @]
    /\ UNCHANGED outsideQa

\* the caller of queryAgent cancels the context, or its deadline passes
ContextCancelled ==
    /\ qa.pc \in {"dialing", "connected", "select"}
    /\ ~qa.ctxDone
    /\ qa' = [qa EXCEPT !.ctxDone = TRUE, !.events = Append(@, "cancel")]
    /\ UNCHANGED outsideQa

NextQueryAgent ==
    \/ QueryAgentStart
    \/ QueryAgentDial
    \/ QueryAgentCall
    \/ CallReturns
    \/ DeliverResult
    \/ SelectCancel
    \/ SelectDone
    \/ ContextCancelled

SpecQueryAgent == InitQueryAgent /\ [][NextQueryAgent]_vars

----------------------------------------------------------------------------
\* runRPCServer from its call to its return, with the accept loop, incoming
\* connections, accept errors and the cancellation of the server context.

InitServer ==
    /\ IdleProcess
    /\ reg = RegistryIdle
    /\ deepseek = ClientUnbuilt
    /\ qa = QueryAgentIdle
    /\ server = ServerIdle
    /\ usr = CreateUserIdle

\* runRPCServer returns: the deferred listener.Close runs once Listen succeeded
serverReturn(err) ==
    [server EXCEPT !.pc = "returned", !.result = err, !.returns = @ + 1,
                   !.listener = IF @ = "none" THEN @ ELSE "closed"]

\* net.Listen
ServerListen ==
    /\ server.pc = "start"
    /\ \E ok \in BOOLEAN :
         server' = IF ok THEN [server EXCEPT !.pc = "listening", !.listener = "open"]
                   ELSE serverReturn("listen_error")
    /\ UNCHANGED outsideServer

\* agent.RegisterRPC, then the channel is made and the goroutine started
ServerRegister ==
    /\ server.pc = "listening"
    /\ \E ok \in BOOLEAN :
         server' = IF ok
                   THEN [server EXCEPT !.pc = "select", !.lpc = "accept",
                                       !.errCh = makeErrCh]
                   ELSE serverReturn("register_error")
    /\ UNCHANGED outsideServer

\* listener.Accept returns a connection: go srv.ServeCodec(...)
AcceptConn ==
    /\ server.lpc = "accept"
    /\ server.listener = "open"
    /\ server.accepted < MaxConns
    /\ server' = [server EXCEPT !.accepted = @ + 1]
    /\ UNCHANGED outsideServer

\* listener.Accept returns an error on an open listener
AcceptFails ==
    /\ server.lpc = "accept"
    /\ server.listener = "open"
    /\ \E err \in {"temporary", "fatal"} :
         /\ err = "temporary" => server.temporary < MaxTemporaryErrors
         /\ server' = [server EXCEPT
                         !.lpc = "failed", !.aerr = err,
                         !.temporary = IF err = "temporary" THEN @ + 1 ELSE @]
    /\ UNCHANGED outsideServer

\* listener.Accept returns at once on a closed listener
AcceptOnClosed ==
    /\ server.lpc = "accept"
    /\ server.listener = "closed"
    /\ server' = [server EXCEPT !.lpc = "failed", !.aerr = "closed"]
    /\ UNCHANGED outsideServer

\* the error branch of acceptLoop
AcceptLoopCheck ==
    /\ server.lpc = "failed"
    /\ LET next == acceptLoopOnError(server.aerr, server.ctxDone)
       IN  server' = IF next.do = "continue"
                     THEN [server EXCEPT !.lpc = "accept", !.aerr = "nil"]
                     ELSE [server EXCEPT !.lpc = "sending", !.lret = next.err]
    /\ UNCHANGED outsideServer

\* errCh <- acceptLoop(...)
AcceptLoopReport ==
    /\ server.lpc = "sending"
    /\ canSend(server.errCh)
    /\ server' = [server EXCEPT !.lpc = "done", !.errCh.buf = Append(@, server.lret)]
    /\ UNCHANGED outsideServer

\* case <-ctx.Done()
ServerSelectCancel ==
    /\ server.pc = "select"
    /\ server.ctxDone
    /\ server' = [serverReturn("nil") EXCEPT !.listener = "closed"]
    /\ UNCHANGED outsideServer

\* case err := <-errCh
ServerSelectErr ==
    /\ server.pc = "select"
    /\ canReceive(server.errCh, server.lpc = "sending")
    /\ LET err == IF server.errCh.buf # <<>> THEN Head(server.errCh.buf)
                  ELSE server.lret
       IN  server' = [serverReturn(serverResult(err, server.ctxDone)) EXCEPT
                        !.errCh.buf = IF @ # <<>> THEN Tail(@) ELSE @,
                        !.lpc = IF server.errCh.buf = <<>> THEN "done" ELSE @]
    /\ UNCHANGED outsideServer

\* the server context is cancelled
ServerContextCancelled ==
    /\ server.pc # "returned"
    /\ ~server.ctxDone
    /\ server' = [server EXCEPT !.ctxDone = TRUE]
    /\ UNCHANGED outsideServer

NextServer ==
    \/ ServerListen
    \/ ServerRegister
    \/ AcceptConn
    \/ AcceptFails
    \/ AcceptOnClosed
    \/ AcceptLoopCheck
    \/ AcceptLoopReport
    \/ ServerSelectCancel
    \/ ServerSelectErr
    \/ ServerContextCancelled

\* every goroutine that can take a step of the program takes it in the end;
\* connections, accept errors and the cancellation come from outside
SpecServer ==
    /\ InitServer
    /\ [][NextServer]_vars
    /\ WF_vars(ServerListen)
    /\ WF_vars(ServerRegister)
    /\ WF_vars(AcceptOnClosed)
    /\ WF_vars(AcceptLoopCheck)
    /\ WF_vars(AcceptLoopReport)
    /\ WF_vars(ServerSelectCancel)
    /\ WF_vars(ServerSelectErr)

----------------------------------------------------------------------------
\* One call of CreateUser, every statement succeeding or failing.

InitCreateUser ==
    /\ IdleProcess
    /\ reg = RegistryIdle
    /\ deepseek = ClientUnbuilt
    /\ qa = QueryAgentIdle
    /\ server = ServerIdle
    /\ usr \in { [CreateUserIdle EXCEPT !.req = r] : r \in CreateUserRequests }

\* CreateUserWithPrivileges returns and CreateUser wraps the error
createUserReturn(u, err) ==
    [u EXCEPT !.pc = "returned", !.err = err, !.response = createUserResponse(err)]

\* databases.GetAdminDB
GetAdminDB ==
    /\ usr.pc = "idle"
    /\ \E ok \in BOOLEAN :
         usr' = IF ok THEN [usr EXCEPT !.pc = "exec", !.k = 1]
                ELSE createUserReturn(usr, <<"admin database unavailable">>)
    /\ UNCHANGED outsideUsr

\* one db.ExecContext: the statement is sent; when it succeeds it has taken
\* effect in the database, whatever comes later
ExecStatement ==
    /\ usr.pc = "exec"
    /\ usr.k <= Len(statementsOf(usr.req))
    /\ \E outcome \in {"ok", "err"} :
         LET stmt == statementsOf(usr.req)[usr.k]
             after == afterExec(usr.k, outcome)
             sent == [usr EXCEPT !.issued = Append(@, stmt),
                                 !.outcomes = Append(@, outcome),
                                 !.applied = IF outcome = "ok" THEN Append(@, stmt)
                                             ELSE @,
                                 !.k = after.next]
         IN  usr' = IF after.failed
                    THEN createUserReturn(sent, failurePrefix(stmt) \o <<":", "driver error">>)
                    ELSE sent
    /\ UNCHANGED outsideUsr

\* return nil after FLUSH PRIVILEGES
CreateUserDone ==
    /\ usr.pc = "exec"
    /\ usr.k > Len(statementsOf(usr.req))
    /\ usr' = createUserReturn(usr, <<>>)
    /\ UNCHANGED outsideUsr

NextCreateUser ==
    \/ GetAdminDB
    \/ ExecStatement
    \/ CreateUserDone

SpecCreateUser == InitCreateUser /\ [][NextCreateUser]_vars

----------------------------------------------------------------------------
\* Properties.  The helpers below restate what is expected independently of
\* the operators above.

IsBlank(q) == \A i \in DOMAIN q : IsSpace(q[i])

\* a request is being served or has just been answered
Serving == pc \in {"planning", "executing", "summarizing", "responded", "panicked"}

\* executePlan has returned for a request with a non-blank question
Executed == pc \in {"summarizing", "responded"} /\ llmCalls.summary = 1

ToolsOf(steps) == [i \in 1..Len(steps) |-> steps[i].Tool]

DefaultPriority ==
    <<ShowStatusName, ShowConnectionsName, ShowProcesslistName, SlowQueryName>>

\* the default sequence restricted to a catalog, in priority order
ExpectedDefaultTools(catalog) ==
    LET InCatalog(name) == name \in catalog
    IN  SelectSeq(DefaultPriority, InCatalog)

IsDefaultPlan(steps, catalog) ==
    /\ ToolsOf(steps) = ExpectedDefaultTools(catalog)
    /\ \A i \in DOMAIN steps :
         \E k \in DOMAIN defaultToolSequence : steps[i] = defaultToolSequence[k]

\* the Execute calls a plan asks for: its registered steps, in plan order
RegisteredToolsOf(steps) ==
    LET Registered(name) == name \in registry
    IN  SelectSeq(ToolsOf(steps), Registered)

InvokedTools == [i \in 1..Len(invoked) |-> invoked[i].tool]

\* position in the plan of the k-th Execute call
RECURSIVE PlanIndexOfCall(_, _)
PlanIndexOfCall(k, from) ==
    IF from > Len(plan) THEN 0
    ELSE IF plan[from].Tool \in registry
         THEN IF k = 1 THEN from ELSE PlanIndexOfCall(k - 1, from + 1)
         ELSE PlanIndexOfCall(k, from + 1)

\* C1: a request whose question is empty or only white space is answered at
\* once with the fixed guidance string, without a fault, without a planning
\* call and without any tool execution.
C1_BlankQuestionGuidance ==
    (Serving /\ IsBlank(question)) =>
        /\ pc = "responded"
        /\ resp.Answer.text = GuidanceAnswer
        /\ fault = "nil"
        /\ llmCalls = NoCalls
        /\ executions = <<>>
        /\ invoked = <<>>

C1_Witness ==
    /\ pc = "responded"
    /\ question = <<" ", "\n">>
    /\ resp.Answer.text = GuidanceAnswer

\* C2: non-abort.  A step that names an unregistered tool, or whose tool
\* fails, gets a result carrying an error, and the loop goes on: the loop
\* position is always one past the results recorded, every registered step
\* reached so far had its tool called, and when executePlan has returned every
\* step of the plan has a result.
C2_NonAbort ==
    /\ pc = "executing" => idx = Len(executions) + 1
    /\ Executed => Len(executions) = Len(plan)
    /\ (pc = "executing" \/ Executed) =>
         /\ \A i \in DOMAIN executions :
              plan[i].Tool \notin registry =>
                  /\ ~executions[i].Err.nil
                  /\ executions[i].Err.msg = "not registered"
         /\ InvokedTools = RegisteredToolsOf(SubSeq(plan, 1, Len(executions)))
         /\ \A k \in DOMAIN invoked :
              invoked[k].outcome = "err" =>
                  ~executions[PlanIndexOfCall(k, 1)].Err.nil

C2_Witness ==
    /\ Executed
    /\ Len(executions) = 3
    /\ executions[1].Err.msg = "not registered"
    /\ executions[2].Err.msg = "query failed"
    /\ executions[3].Err.nil

\* C3: executing a plan yields exactly one result per step of the
\* duplicate-collapsed plan, the k-th result belonging to the k-th step.
C3_OneResultPerStep ==
    /\ (pc = "executing" \/ Executed) =>
         /\ \A i, j \in DOMAIN plan : i # j => plan[i].Tool # plan[j].Tool
         /\ Len(executions) <= Len(plan)
         /\ \A k \in DOMAIN executions : executions[k].Step = plan[k]
    /\ Executed => Len(executions) = Len(plan)

C3_Witness ==
    /\ Executed
    /\ Len(plan) = 3
    /\ \E i, j \in DOMAIN executions : executions[i].Err.nil /\ ~executions[j].Err.nil
    /\ \E i \in DOMAIN executions : executions[i].Err.msg = "not registered"

\* C4: every served request ends responded, with a response body and no
\* fault; no served request ends in a crash of the worker.
C4_AlwaysResponds ==
    /\ pc # "panicked"
    /\ pc = "responded" => fault = "nil"

\* C5: if the planning call fails, the plan executed is the default sequence
\* restricted to the catalog, in the fixed priority order, whatever the order
\* in which the registry listed its definitions.
C5_DefaultPlanOnPlanningFailure ==
    (pc \in {"executing", "summarizing", "responded"} /\ ~planned.err.nil) =>
        /\ IsDefaultPlan(plan, registry)
        /\ (registry = {ShowStatusName, ShowConnectionsName, ShowProcesslistName}
              => ToolsOf(plan) =
                   <<ShowStatusName, ShowConnectionsName, ShowProcesslistName>>)

C5_Witness ==
    /\ pc = "executing"
    /\ ~planned.err.nil
    /\ [i \in 1..Len(toolDefs) |-> toolDefs[i].Name] =
         <<ShowProcesslistName, ShowConnectionsName, ShowStatusName>>
    /\ ToolsOf(plan) = <<ShowStatusName, ShowConnectionsName, ShowProcesslistName>>

\* C6: if planning succeeds with zero normalized steps, the default sequence
\* restricted to the catalog is executed instead; a request is answered with
\* zero executed steps only when no default tool is in the catalog.
C6_DefaultPlanOnEmptyPlan ==
    /\ (pc \in {"executing", "summarizing", "responded"}
          /\ planned.err.nil /\ llmCalls.plan = 1 /\ Len(planned.steps) = 0) =>
            IsDefaultPlan(plan, registry)
    /\ (Executed /\ planned.err.nil /\ Len(planned.steps) = 0) =>
            /\ InvokedTools = ExpectedDefaultTools(registry)
            /\ [i \in 1..Len(executions) |-> executions[i].Step.Tool] = ToolsOf(plan)
    /\ (Executed /\ Len(executions) = 0) =>
            registry \cap {DefaultPriority[i] : i \in DOMAIN DefaultPriority} = {}

C6_Witness ==
    /\ Executed
    /\ planned.err.nil
    /\ Len(planned.steps) = 0
    /\ Len(invoked) = 2
    /\ Cardinality(registry) = 2

\* C7: if the summarization call fails, the query still answers: the answer
\* says that summarization failed and carries a dump with exactly the executed
\* tools, one entry per execution result with its params and its output or
\* its error; sources and raw are populated as well.
C7_FallbackDump ==
    (pc = "responded" /\ ~summary.err.nil) =>
        /\ fault = "nil"
        /\ resp.Answer.text = FallbackPrefix
        /\ DOMAIN resp.Answer.dump = {executions[i].Step.Tool : i \in DOMAIN executions}
        /\ \A i \in DOMAIN executions :
             LET e == executions[i]
                 entries == resp.Answer.dump[e.Step.Tool]
             IN  /\ Len(entries) = 1
                 /\ entries[1].params = e.Step.Params
                 /\ IF e.Err.nil
                    THEN entries[1].keys = {"params", "result"}
                         /\ entries[1].result = e.Output
                    ELSE entries[1].keys = {"params", "error"}
                         /\ entries[1].error = ErrorString(e.Err)
        /\ Len(resp.Sources) = Len(executions)
        /\ DOMAIN resp.Raw = {executions[i].Step.Tool : i \in DOMAIN executions}
        /\ Len(executions) >= 1 =>
             resp.Sources # <<>> /\ DOMAIN resp.Raw # {} /\ resp.Answer.text # <<>>

C7_Witness ==
    /\ pc = "responded"
    /\ ~summary.err.nil
    /\ Len(executions) = 3
    /\ \E i \in DOMAIN executions : ~executions[i].Err.nil
    /\ \E i \in DOMAIN executions : executions[i].Err.nil
    /\ Cardinality(DOMAIN resp.Answer.dump) = 3

\* C8: in every response to a request for which at least one step was
\* executed, the answer is non-empty, whatever the summarization call returned.
C8_AnswerNeverEmpty ==
    (pc = "responded" /\ Len(executions) >= 1) => resp.Answer.text # <<>>

\* C9 as stated: the table has one entry per required signal, and a signal
\* whose tool never ran has status not_collected.
C9_NeverRanIsNotCollected ==
    Executed =>
        /\ Len(payload.Signals) = Len(requiredSignalConfig)
        /\ \A i \in DOMAIN payload.Signals :
             (\A k \in DOMAIN invoked : invoked[k].tool # payload.Signals[i].Tool)
                 => payload.Signals[i].Status = "not_collected"

\* C9 amended: the table has one entry per required signal, in configuration
\* order; a signal whose tool never ran is never collected (nor error): it is
\* unsupported when its tool is not in the catalog, not_collected otherwise.
C9_SignalTableComplete ==
    Executed =>
        /\ Len(payload.Signals) = Len(requiredSignalConfig)
        /\ \A i \in DOMAIN payload.Signals :
             /\ payload.Signals[i].Key = requiredSignalConfig[i].Key
             /\ payload.Signals[i].Tool = requiredSignalConfig[i].Tool
             /\ (\A k \in DOMAIN invoked : invoked[k].tool # payload.Signals[i].Tool)
                  => payload.Signals[i].Status =
                        IF payload.Signals[i].Tool \in registry
                        THEN "not_collected" ELSE "unsupported"

C9_Witness ==
    /\ Executed
    /\ Len(invoked) >= 1
    /\ payload.Signals[1].Status = "not_collected"
    /\ payload.Signals[4].Status = "unsupported"
    /\ \E i \in DOMAIN executions : executions[i].Step.Tool = <<"innodb_trx">>

\* C10: a planning failure is recovered by the default plan and is not
\* surfaced: the query goes on to execute tools and no field of the response
\* reports the planning error.
C10_PlanningFailureNotSurfaced ==
    (pc = "responded" /\ ~planned.err.nil) =>
        /\ fault = "nil"
        /\ Len(invoked) >= 1
        /\ InvokedTools = ExpectedDefaultTools(registry)
        /\ resp.Answer.text # <<planned.err.msg>>
        /\ \A i \in DOMAIN resp.Sources :
             resp.Sources[i].Error.msg \in {"", "query failed"}
        /\ \A t \in DOMAIN resp.Raw : \A k \in DOMAIN resp.Raw[t] :
             resp.Raw[t][k].error.msg \in {"", "query failed"}
        /\ \A t \in DOMAIN resp.Answer.dump : \A k \in DOMAIN resp.Answer.dump[t] :
             resp.Answer.dump[t][k].error.msg \in {"", "query failed"}

C10_Witness ==
    /\ pc = "responded"
    /\ planned.err.msg = "parse plan JSON"
    /\ Len(invoked) = 4
    /\ fault = "nil"

\* C11: a failing tool does not fail the query.  When a request with a
\* non-blank question is answered, Query returned no fault, the summarization
\* call was made with one result per step, the response has one source and
\* one raw entry per step, the answer is the summary or the fallback as for
\* any plan, and every failed step is reported with status error and its
\* message in sources, in raw and in the summarizer's payload.
C11_ToolErrorRecorded ==
    (pc = "responded" /\ ~IsBlank(question)) =>
        /\ fault = "nil"
        /\ llmCalls.summary = 1
        /\ Len(payload.ToolResults) = Len(plan)
        /\ Len(resp.Sources) = Len(plan)
        /\ DOMAIN resp.Raw = {plan[i].Tool : i \in DOMAIN plan}
        /\ resp.Answer.text = IF summary.err.nil THEN summary.answer ELSE FallbackPrefix
        /\ \A i \in DOMAIN executions :
             ~executions[i].Err.nil =>
                 /\ resp.Sources[i].Tool = plan[i].Tool
                 /\ resp.Sources[i].Status = "error"
                 /\ resp.Sources[i].Error.msg = executions[i].Err.msg
                 /\ payload.ToolResults[i].Status = "error"
                 /\ \E k \in DOMAIN resp.Raw[plan[i].Tool] :
                      /\ "error" \in resp.Raw[plan[i].Tool][k].keys
                      /\ resp.Raw[plan[i].Tool][k].error.msg = executions[i].Err.msg

C11_Witness ==
    /\ pc = "responded"
    /\ summary.err.nil
    /\ resp.Answer.text = <<"report">>
    /\ Len(executions) = 2
    /\ executions[1].Err.msg = "query failed"
    /\ executions[2].Err.nil
    /\ resp.Sources[1].Status = "error"

\* C12: concurrent first use.  Each initialization body is entered at most
\* once; a caller that is past once.Do (toolOnce.Do) finds the body finished;
\* what a caller was handed is the cached outcome, so any two callers of the
\* same function were handed the same model or tool list, or the same error;
\* while a body runs, exactly its one holder is inside it.
C12_InitializedOnce ==
    /\ initRuns.agent <= 1
    /\ initRuns.tools <= 1
    /\ \A c \in Callers :
         /\ cpc[c] = "initAgent.return" => once.done
         /\ cpc[c] = "ensureTools.return" => toolOnce.done
         /\ cpc[c] = "registering" => toolOnce.holder = c
         /\ observed[c].agent.got =>
              /\ once.done
              /\ observed[c].agent.err = initErr
              /\ observed[c].agent.model = IF initErr.nil THEN chatModel ELSE "nil"
         /\ observed[c].tools.got =>
              /\ toolOnce.done
              /\ observed[c].tools.err = toolErr
              /\ observed[c].tools.tools = IF toolErr.nil THEN toolList ELSE <<>>
    /\ \A c, d \in Callers :
         /\ (observed[c].agent.got /\ observed[d].agent.got)
              => observed[c].agent = observed[d].agent
         /\ (observed[c].tools.got /\ observed[d].tools.got)
              => observed[c].tools = observed[d].tools

C12_Witness ==
    \E c, d \in Callers :
        /\ c # d
        /\ once.holder = c
        /\ cpc[c] = "registering"
        /\ Len(toolList) >= 1
        /\ cpc[d] = "once.Do"
        /\ initRuns = [agent |-> 1, tools |-> 1]

C14_ConstructedBeforeServing ==
    Serving => svc = "ready"

\* C15: once the tool set is initialized no step changes it: no step of any
\* query adds, replaces or removes a tool of toolMap and toolList once
\* toolOnce is done, nor of the registry of a constructed Service.
C15_RegistryFrame ==
    [][ /\ toolOnce.done => (toolMap' = toolMap /\ toolList' = toolList)
        /\ svc = "ready" => registry' = registry ]_vars

C15_Witness ==
    /\ rpcPc = "responded"
    /\ toolOnce.done
    /\ Cardinality(toolMap) = Len(ensureToolsOrder)
    /\ rpcCalls = [plan |-> 1, analysis |-> 1]
    /\ Len(rpcInvoked) = 2

\* C16: every database probe of a query runs under a deadline derived from
\* the per-request timeout: the default, or the request's positive override.
C16_ProbesHaveRequestDeadline ==
    /\ \A i \in DOMAIN invoked :
         invoked[i].deadline \in {queryTimeout(s) : s \in TimeoutChoices}
    /\ \A i \in DOMAIN rpcInvoked :
         rpcInvoked[i].deadline = queryTimeout(req.TimeoutSeconds)

\* C17: when a query ends because its deadline was found expired at a
\* blocking call, the response carries no output of the steps completed before.
C17_PartialResultsDiscarded ==
    (rpcPc = "responded"
       /\ \E k \in DOMAIN rpcResp.Analysis.Error :
            rpcResp.Analysis.Error[k] = "context deadline exceeded") =>
        /\ \A i \in DOMAIN rpcResp.ToolRuns : rpcResp.ToolRuns[i].Output = NilJSON
        /\ rpcResp.Raw.tool_outputs = <<>>

\* C18: a request that supplies a non-empty plan is answered without a
\* planning call and with exactly the supplied steps run, in their order.
C18_SuppliedPlanRunExactly ==
    (rpcPc = "responded" /\ Len(req.Tools) > 0) =>
        /\ rpcCalls.plan = 0
        /\ [i \in 1..Len(toolRuns) |-> toolRuns[i].Name] =
             [i \in 1..Len(req.Tools) |-> req.Tools[i].Name]

\* the catalog of a registry, listed in the order of registration
ListedInRegistrationOrder(tools) ==
    LET Registered(name) == name \in tools
        kept == SelectSeq(InitializeToolsOrder, Registered)
    IN  [i \in 1..Len(kept) |-> GetDefinition(kept[i])]

C20_ResponseShape ==
    (pc = "responded" /\ ~IsBlank(question)) =>
        /\ Len(resp.Sources) = Len(executions)
        /\ \A i \in DOMAIN resp.Sources :
             /\ resp.Sources[i].Tool = plan[i].Tool
             /\ resp.Sources[i].Status \in {"success", "error"}
             /\ (resp.Sources[i].Status = "error") <=> (resp.Sources[i].Error.msg # "")
             /\ (resp.Sources[i].Status = "error") <=> ~executions[i].Err.nil
        /\ DOMAIN resp.Raw = {executions[i].Step.Tool : i \in DOMAIN executions}
        /\ \A t \in DOMAIN resp.Raw :
             /\ Len(resp.Raw[t]) =
                  Cardinality({i \in DOMAIN executions : executions[i].Step.Tool = t})
             /\ \A k \in DOMAIN resp.Raw[t] :
                  /\ "params" \in resp.Raw[t][k].keys
                  /\ resp.Raw[t][k].keys \subseteq {"params", "result", "error"}
                  /\ ("result" \in resp.Raw[t][k].keys) # ("error" \in resp.Raw[t][k].keys)
                  /\ \E i \in DOMAIN executions :
                       /\ executions[i].Step.Tool = t
                       /\ resp.Raw[t][k].params = executions[i].Step.Params

C20_Witness ==
    /\ pc = "responded"
    /\ Len(resp.Sources) = 3
    /\ resp.Sources[1].Status = "success"
    /\ resp.Sources[2].Status = "error"
    /\ resp.Sources[2].Error.msg = "not registered"
    /\ resp.Sources[3].Params = MakeParams({<<"limit", "5">>})
    /\ Cardinality(DOMAIN resp.Raw) = 3

\* two result sequences agree step by step in tool, outcome and output shape
SameResults(a, b) ==
    /\ Len(a) = Len(b)
    /\ \A i \in DOMAIN a :
         /\ a[i].Step.Tool = b[i].Step.Tool
         /\ a[i].Err.nil = b[i].Err.nil
         /\ a[i].Output = b[i].Output

RerunDone == rerun.pass = 2 /\ rerun.idx > Len(rerun.plan)

CatalogNames == {toolDefs[i].Name : i \in DOMAIN toolDefs}

ExecutionsOf(tool) == {i \in DOMAIN executions : executions[i].Step.Tool = tool}

\* the status of a required signal by the precedence of the specification
ExpectedSignalStatus(tool) ==
    IF tool \notin CatalogNames THEN "unsupported"
    ELSE IF ExecutionsOf(tool) = {} THEN "not_collected"
    ELSE IF \E i \in ExecutionsOf(tool) : ~executions[i].Err.nil THEN "error"
    ELSE "collected"

\* C22: precedence of signal derivation.  For every required signal the
\* status is unsupported (note "tool not registered") when the catalog has
\* no entry for its tool, even if a step naming the tool was executed and
\* failed; else not_collected when no step ran the tool; else error, with the
\* step's error message as the note, when the step failed; else collected.  A
\* collected signal's tool is registered and was run without error.
C22_SignalPrecedence ==
    Executed =>
        \A i \in DOMAIN payload.Signals :
            LET sig == payload.Signals[i]
            IN  /\ sig.Status = ExpectedSignalStatus(sig.Tool)
                /\ sig.Status = "unsupported" => sig.Notes.msg = "tool not registered"
                /\ sig.Status = "error" =>
                     \E k \in ExecutionsOf(sig.Tool) :
                         sig.Notes = ErrorString(executions[k].Err)
                /\ sig.Status = "collected" =>
                     /\ sig.Tool \in registry
                     /\ \E k \in DOMAIN invoked :
                          invoked[k].tool = sig.Tool /\ invoked[k].outcome = "ok"

C22_Witness ==
    /\ Executed
    /\ payload.Signals[1].Status = "error"
    /\ payload.Signals[1].Notes.msg = "query failed"
    /\ payload.Signals[4].Status = "unsupported"
    /\ \E i \in DOMAIN executions :
         /\ executions[i].Step.Tool = <<"innodb_trx">>
         /\ executions[i].Err.msg = "not registered"

\* generateToolPlan was handed a completion that parsed as a plan
PlannerParsed ==
    /\ planner.done
    /\ ~planner.clientIsNil
    /\ planner.http = "ok"
    /\ planner.reply.kind = "content"

\* positions of the steps normalization keeps: the trimmed name is not empty
\* and no earlier step has the same trimmed name
KeptPositions(steps) ==
    {i \in DOMAIN steps :
        /\ TrimSpace(steps[i].Tool) # <<>>
        /\ \A j \in 1..(i - 1) : TrimSpace(steps[j].Tool) # TrimSpace(steps[i].Tool)}

Trimmed(s) == s = <<>> \/ (~IsSpace(s[1]) /\ ~IsSpace(s[Len(s)]))

\* C23: plan normalization.  The normalized plan consists of exactly the
\* steps of the input whose trimmed tool name is not empty and did not occur
\* earlier, in the input's order, each with the trimmed name, the trimmed
\* reason and the input's params; its tool names are non-empty and pairwise
\* distinct.
C23_NormalizedPlan ==
    PlannerParsed =>
        LET input == planner.reply.steps
            output == planner.out.steps
        IN  /\ Len(output) = Cardinality(KeptPositions(input))
            /\ \E f \in [DOMAIN output -> KeptPositions(input)] :
                 /\ \A i, j \in DOMAIN output : i < j => f[i] < f[j]
                 /\ \A i \in DOMAIN output :
                      /\ output[i].Tool = TrimSpace(input[f[i]].Tool)
                      /\ output[i].Reason = TrimSpace(input[f[i]].Reason)
                      /\ output[i].Params.kv = input[f[i]].Params.kv
            /\ \A i \in DOMAIN output :
                 /\ output[i].Tool # <<>>
                 /\ Trimmed(output[i].Tool)
                 /\ Trimmed(output[i].Reason)
            /\ \A i, j \in DOMAIN output : i # j => output[i].Tool # output[j].Tool

C23_Witness ==
    /\ PlannerParsed
    /\ Len(planner.reply.steps) = 3
    /\ planner.reply.steps[1].Tool = <<" ">>
    /\ planner.reply.steps[2].Tool = <<" ", "show_status", " ">>
    /\ planner.reply.steps[3].Tool = ShowStatusName
    /\ planner.out.steps =
         << [Tool |-> ShowStatusName, Reason |-> <<>>,
             Params |-> MakeParams({<<"pattern", "Conn%">>})] >>

\* a plan has been settled for a request with a non-blank question
Planned == pc \in {"executing", "summarizing", "responded"} /\ ~IsBlank(question)

\* C24: every step of the plan the planner returned, and of the plan handed
\* to the executor, names a tool of the catalog listed for the request.
C24_PlanWithinCatalog ==
    Planned =>
        /\ \A i \in DOMAIN planned.steps : planned.steps[i].Tool \in CatalogNames
        /\ \A i \in DOMAIN plan : plan[i].Tool \in CatalogNames

NotRegisteredFlag(result) == result.Err.msg = "not registered"

\* C25: a result is flagged "not registered" exactly when the registry has no
\* tool of the step's name; every other result names a tool of the registry,
\* which is the catalog listed at planning; and Execute was called once per
\* unflagged result and never for a flagged one.
C25_NotRegisteredFlag ==
    (pc = "executing" \/ Executed) =>
        /\ \A i \in DOMAIN executions :
             /\ NotRegisteredFlag(executions[i]) <=> executions[i].Step.Tool \notin registry
             /\ ~NotRegisteredFlag(executions[i]) =>
                    executions[i].Step.Tool \in CatalogNames
        /\ Len(invoked) =
             Cardinality({i \in DOMAIN executions : ~NotRegisteredFlag(executions[i])})
        /\ \A k \in DOMAIN invoked :
             \E i \in DOMAIN executions :
                 /\ executions[i].Step.Tool = invoked[k].tool
                 /\ ~NotRegisteredFlag(executions[i])

C25_Witness ==
    /\ Executed
    /\ Len(executions) = 3
    /\ NotRegisteredFlag(executions[2])
    /\ executions[2].Step.Tool = <<"innodb_trx">>
    /\ Len(invoked) = 2
    /\ executions[1].Err.nil
    /\ executions[3].Err.msg = "query failed"

\* C26: every execution result has exactly one of output and error: a failed
\* or unregistered step has an error with a message and no output, a
\* successful step has the output of its tool and no error.
C26_OutputXorError ==
    (pc = "executing" \/ Executed) =>
        \A i \in DOMAIN executions :
            /\ executions[i].Err.nil # executions[i].Output.nil
            /\ ~executions[i].Err.nil =>
                 executions[i].Err.msg # "" /\ executions[i].Output = NilOutput
            /\ executions[i].Err.nil =>
                 executions[i].Output.from = executions[i].Step.Tool

C26_Witness ==
    /\ Executed
    /\ Len(executions) = 3
    /\ executions[1].Err.msg = "query failed"
    /\ executions[1].Output.nil
    /\ executions[2].Err.nil
    /\ ~executions[2].Output.nil
    /\ executions[3].Err.msg = "not registered"

\* C27: the stages of a query are sequential.  While the planning call is
\* out no tool has run; a tool runs only inside the loop of executePlan,
\* after the one planning call and before any summarization call, one call
\* per step and in plan order, each call made after the result of the step
\* before it was recorded; the summarization call is made only when every
\* step has its result, and no tool runs after it.
C27_StagesSequential ==
    /\ [](pc = "planning" =>
            /\ executions = <<>>
            /\ invoked = <<>>
            /\ llmCalls = [plan |-> 1, summary |-> 0])
    /\ [](pc = "executing" =>
            /\ llmCalls = [plan |-> 1, summary |-> 0]
            /\ Len(executions) = idx - 1
            /\ InvokedTools = RegisteredToolsOf(SubSeq(plan, 1, idx - 1)))
    /\ [](llmCalls.summary >= 1 =>
            /\ pc \in {"summarizing", "responded"}
            /\ Len(executions) = Len(plan)
            /\ InvokedTools = RegisteredToolsOf(plan))
    /\ [][Len(invoked') > Len(invoked) =>
            /\ pc = "executing" /\ pc' = "executing"
            /\ llmCalls' = llmCalls
            /\ Len(invoked') = Len(invoked) + 1
            /\ Len(executions) = idx - 1
            /\ invoked'[Len(invoked')].tool = plan[idx].Tool
            /\ idx' = idx + 1]_vars
    /\ [][llmCalls'.summary > llmCalls.summary =>
            /\ pc = "executing" /\ idx > Len(plan)
            /\ invoked' = invoked
            /\ executions' = executions]_vars

C27_Witness ==
    /\ pc = "summarizing"
    /\ planned.err.nil
    /\ Len(plan) = 3
    /\ InvokedTools = <<ShowProcesslistName, SlowQueryName, ShowStatusName>>
    /\ llmCalls = [plan |-> 1, summary |-> 1]

\* C28: per request at most one planning call and at most one summarization
\* call are made.  A failed summarization is answered with the fallback after
\* that one call, and a failed planning call is followed by the default plan
\* without a second planning call.
C28_NoRetry ==
    /\ llmCalls.plan <= 1
    /\ llmCalls.summary <= 1
    /\ (pc = "responded" /\ ~summary.err.nil) =>
         /\ llmCalls.summary = 1
         /\ resp.Answer.text = FallbackPrefix
    /\ (Planned /\ ~planned.err.nil) =>
         /\ llmCalls.plan = 1
         /\ ToolsOf(plan) = ExpectedDefaultTools(CatalogNames)

C28_Witness ==
    /\ pc = "responded"
    /\ planned.err.msg = "call DeepSeek planner"
    /\ summary.err.msg = "call DeepSeek summary"
    /\ llmCalls = [plan |-> 1, summary |-> 1]
    /\ resp.Answer.text = FallbackPrefix
    /\ Len(executions) = 4

\* C29: the payload of the summarization call holds the trimmed question,
\* the plan, one tool result per execution result in plan order (status
\* success with the step's output, or status error with the step's error
\* message) and the signal table derived from these execution results and
\* the catalog; nothing in it stands for a tool that was not executed.
C29_PayloadFromThisQuery ==
    Executed =>
        /\ payload.Question = TrimSpace(question)
        /\ payload.Plan = plan
        /\ Len(payload.ToolResults) = Len(executions)
        /\ \A i \in DOMAIN payload.ToolResults :
             LET entry == payload.ToolResults[i]
             IN  /\ entry.Tool = plan[i].Tool
                 /\ entry.Tool = executions[i].Step.Tool
                 /\ entry.Params.kv = executions[i].Step.Params.kv
                 /\ IF executions[i].Err.nil
                    THEN /\ entry.Status = "success"
                         /\ entry.Result = executions[i].Output
                         /\ entry.Error = EmptyStr
                    ELSE /\ entry.Status = "error"
                         /\ entry.Result = NilOutput
                         /\ entry.Error = ErrorString(executions[i].Err)
        /\ Len(payload.Signals) = Len(requiredSignalConfig)
        /\ \A i \in DOMAIN payload.Signals :
             /\ payload.Signals[i].Tool = requiredSignalConfig[i].Tool
             /\ payload.Signals[i].Status = ExpectedSignalStatus(payload.Signals[i].Tool)
             /\ payload.Signals[i].Status \in {"collected", "error"} =>
                  ExecutionsOf(payload.Signals[i].Tool) # {}

C29_Witness ==
    /\ pc = "summarizing"
    /\ Len(payload.ToolResults) = 3
    /\ payload.ToolResults[1].Status = "success"
    /\ payload.ToolResults[2].Status = "error"
    /\ payload.ToolResults[2].Error.msg = "query failed"
    /\ payload.ToolResults[3].Error.msg = "not registered"
    /\ payload.Signals[1].Status = "collected"

\* the planning call did not yield a completion that parses as a plan
PlanningFailed ==
    \/ planner.clientIsNil
    \/ planner.http # "ok"
    \/ planner.reply.kind \in {"empty_choices", "bad_json"}

\* C30: the planner never guesses.  When the client is missing, the exchange
\* fails (no key, transport error, status other than 200, unreadable body),
\* the completion has no choices or its content does not parse, the planner
\* returns an error with a message and no step; it returns steps only without
\* an error, and then they are the normalized steps of the completion.
C30_PlannerNeverGuesses ==
    planner.done =>
        /\ PlanningFailed =>
             /\ ~planner.out.err.nil
             /\ planner.out.err.msg # ""
             /\ planner.out.steps = <<>>
        /\ ~PlanningFailed =>
             /\ planner.out.err.nil
             /\ Len(planner.out.steps) = Cardinality(KeptPositions(planner.reply.steps))
             /\ \A i \in DOMAIN planner.out.steps :
                  /\ planner.out.steps[i].Tool # <<>>
                  /\ Trimmed(planner.out.steps[i].Tool)
                  /\ \E k \in KeptPositions(planner.reply.steps) :
                       TrimSpace(planner.reply.steps[k].Tool) = planner.out.steps[i].Tool
             /\ \A i, j \in DOMAIN planner.out.steps :
                  i # j => planner.out.steps[i].Tool # planner.out.steps[j].Tool
        /\ planner.out.steps # <<>> => planner.out.err.nil

C30_Witness ==
    /\ planner.done
    /\ ~planner.clientIsNil
    /\ planner.http = "ok"
    /\ planner.reply.kind = "bad_json"
    /\ planner.out.err.msg = "parse plan JSON"
    /\ planner.out.steps = <<>>

\* the names registered so far
RegisteredNames(log) == {log[i].def : i \in DOMAIN log}

\* the registration of a name that no later registration of that name follows
LatestRegistration(log, name) ==
    log[CHOOSE i \in DOMAIN log :
            /\ log[i].def = name
            /\ \A j \in DOMAIN log : log[j].def = name => j <= i]

\* C31: a registration is stored under the definition name of the tool and
\* replaces an earlier one under that name; a lookup finds exactly the names
\* registered so far and hands back the tool registered last under the name;
\* as many definitions are listed as there are distinct registered names.
C31_LastRegistrationWins ==
    /\ DOMAIN reg.tools = RegisteredNames(reg.log)
    /\ \A n \in RegisteredNames(reg.log) :
         reg.tools[n] = LatestRegistration(reg.log, n)
    /\ reg.last.op = "lookup" =>
         /\ reg.last.exists <=> reg.last.name \in RegisteredNames(reg.log)
         /\ reg.last.exists =>
              reg.last.tool = LatestRegistration(reg.log, reg.last.name)
         /\ ~reg.last.exists => reg.last.tool = NilTool
    /\ reg.last.op = "list" =>
         /\ Len(reg.last.defs) = Cardinality(RegisteredNames(reg.log))
         /\ {reg.last.defs[i].Name : i \in DOMAIN reg.last.defs}
              = RegisteredNames(reg.log)

\* a name registered twice is looked up and the second tool comes back
C31_Witness ==
    /\ reg.last.op = "lookup"
    /\ reg.last.exists
    /\ \E i, j \in DOMAIN reg.log :
         /\ i < j
         /\ reg.log[i].def = reg.last.name
         /\ reg.log[j] = reg.last.tool

\* the credential the environment and the configuration provide, in that order
ExpectedCredential(env, cfg) ==
    CASE env # "" -> env
      [] env = "" /\ ~cfg.isNil -> cfg.APIKey
      [] OTHER -> ""

\* C32: the credential of a client is the one of the environment when the
\* environment provides one and the one of the configuration otherwise; a
\* client with no credential fails every completion call with an error and
\* sends no request to the endpoint.
C32_CredentialPrecedence ==
    deepseek.built =>
        /\ deepseek.client.APIKey = ExpectedCredential(deepseek.env, deepseek.cfg)
        /\ \A i \in DOMAIN deepseek.sent :
             /\ deepseek.sent[i] # ""
             /\ deepseek.sent[i] = ExpectedCredential(deepseek.env, deepseek.cfg)
        /\ ExpectedCredential(deepseek.env, deepseek.cfg) = "" =>
             /\ deepseek.sent = <<>>
             /\ deepseek.calls > 0 => deepseek.last.kind = "call_failed"

\* neither the environment nor the loaded configuration holds a key, and the
\* client was called twice
C32_Witness ==
    /\ deepseek.built
    /\ deepseek.env = ""
    /\ ~deepseek.cfg.isNil
    /\ deepseek.cfg.APIKey = ""
    /\ deepseek.calls = MaxChatCalls
    /\ deepseek.sent = <<>>
    /\ deepseek.last.kind = "call_failed"

\* C33: in every response to a non-blank question there are as many sources
\* entries as keys of raw and as steps of the effective plan, and every list
\* of raw holds exactly one entry.
C33_OneEntryPerStep ==
    (pc = "responded" /\ ~IsBlank(question)) =>
        /\ Len(resp.Sources) = Len(plan)
        /\ Cardinality(DOMAIN resp.Raw) = Len(plan)
        /\ \A k \in DOMAIN resp.Raw : Len(resp.Raw[k]) = 1
        /\ \A i \in DOMAIN plan :
             /\ resp.Sources[i].Tool = plan[i].Tool
             /\ plan[i].Tool \in DOMAIN resp.Raw

\* a response to a plan of several steps, one of which failed
C33_Witness ==
    /\ pc = "responded"
    /\ ~IsBlank(question)
    /\ Len(plan) >= 2
    /\ Len(resp.Sources) = Len(plan)
    /\ \E i \in DOMAIN resp.Sources : resp.Sources[i].Status = "error"
    /\ \E i \in DOMAIN resp.Sources : resp.Sources[i].Status = "success"

\* RPCService.Query has entered or gone through its loop over the plan
InToolLoop == rpcPc \in {"executing", "analyzing", "responded"} /\ rpcPlan # <<>>

\* analyzeWithLLM was called: its completion call went out, or the call
\* failed before and left its error in raw
AnalysisAttempted == rpcCalls.analysis > 0 \/ rpcResp.Raw.llm_error # <<>>

AllStepsSucceeded ==
    /\ Len(toolRuns) = Len(rpcPlan)
    /\ \A i \in DOMAIN toolRuns : toolRuns[i].Error = <<>>

PlanningRefused == rpcPlanned.called /\ rpcPlanned.refusal # <<>>
PlanningErrored == rpcPlanned.called /\ ~rpcPlanned.err.nil

\* the texts planWithLLM gives a refusal: the reason of the model behind a
\* fixed prefix, or a fixed text when the model gave no reason
RefusalTexts ==
    {<<"the request is beyond the tools">>}
    \cup {<<"cannot handle the request:">> \o r.reason :
            r \in {x \in RPCPlannerReplies : x.kind = "refusal" /\ x.reason # <<>>}}

\* C35: when the planning model declares the request not answerable, or
\* planning fails with an error, RPCService.Query invokes no tool, makes no
\* analysis call, returns an empty list of tool runs and puts the refusal
\* text (the planning error) in the Error of the response.
C35_RefusalStopsQuery ==
    /\ (PlanningRefused \/ PlanningErrored) =>
         /\ rpcPc = "responded"
         /\ rpcInvoked = <<>>
         /\ toolRuns = <<>>
         /\ rpcResp.ToolRuns = <<>>
         /\ rpcCalls.analysis = 0
         /\ rpcResp.Raw = NoRaw
         /\ rpcResp.Analysis.Summary = <<>>
         /\ rpcFault = NoError
    /\ PlanningRefused =>
         /\ rpcResp.Analysis.Error = rpcPlanned.refusal
         /\ rpcPlanned.refusal \in RefusalTexts
    /\ PlanningErrored =>
         /\ rpcResp.Analysis.Error # <<>>
         /\ \E k \in 0..Len(rpcResp.Analysis.Error) :
              SubSeq(rpcResp.Analysis.Error, k + 1, Len(rpcResp.Analysis.Error))
                = rpcPlanned.err.text

\* the planning model refused with a reason and the response carries it
C35_Witness ==
    /\ rpcPc = "responded"
    /\ PlanningRefused
    /\ rpcCalls.plan = 1
    /\ rpcResp.Analysis.Error = <<"cannot handle the request:", "not about MySQL">>
    /\ rpcResp.ToolRuns = <<>>

\* queryAgent returned from its select
ReturnedFromSelect ==
    qa.pc = "returned" /\ qa.result.kind \in {"canceled", "call_error", "reply"}

\* the context was cancelled before the result of the call was on the channel
CancelledBeforeReply == qa.events # <<>> /\ qa.events[1] = "cancel"

\* C36 as stated: a call whose context is cancelled before the reply arrives
\* returns the cancellation error with an empty response, and any other call
\* returns the reply or the error of the call.
C36_CancelBeforeReplyDecides ==
    ReturnedFromSelect =>
        IF CancelledBeforeReply
        THEN qa.result = returnOf("canceled", EmptyAgentResponse)
        ELSE qa.result.kind \in {"reply", "call_error"}

\* the goroutine is at its send and the send can never proceed
SenderStuck == qa.gpc = "sending" /\ qa.pc = "returned" /\ Len(qa.done.buf) >= qa.done.cap

\* C36: queryAgent returns at most once per call; it returns the cancellation
\* error (with an empty response, the connection closed) only when the
\* context is done and the reply or the error of the call only when the call
\* has returned it; when one of the two is ready at the select that one
\* decides, when both are ready either may; the goroutine is never left at a
\* send that cannot proceed.
C36_ReturnsOnceOnWhatIsReady ==
    /\ qa.returns <= 1
    /\ qa.pc = "returned" <=> qa.returns = 1
    /\ qa.pc = "returned" =>
         /\ qa.result.kind # "none"
         /\ qa.result.kind # "reply" => qa.result.resp = EmptyAgentResponse
    /\ ReturnedFromSelect =>
         /\ qa.connClosed
         /\ qa.ready # {}
         /\ qa.result.kind = "canceled" => qa.ctxDone /\ "cancel" \in qa.ready
         /\ qa.result.kind = "reply" =>
              /\ "done" \in qa.ready
              /\ qa.callErr = "nil"
              /\ qa.result.resp = qa.rpcResp
              /\ qa.result.resp \in AgentReplies
         /\ qa.result.kind = "call_error" => "done" \in qa.ready /\ qa.callErr = "err"
         /\ qa.ready = {"cancel"} => qa.result.kind = "canceled"
         /\ qa.ready = {"done"} => qa.result.kind \in {"reply", "call_error"}
    /\ ~SenderStuck

\* the context was cancelled and queryAgent returned the cancellation error
\* while the call was under way; the goroutine then got the error of the
\* closed connection and is at its send
C36_Witness ==
    /\ qa.pc = "returned"
    /\ qa.result = returnOf("canceled", EmptyAgentResponse)
    /\ qa.ready = {"cancel"}
    /\ qa.connClosed
    /\ qa.gpc = "sending"
    /\ qa.callErr = "err"

\* the accept loop was started
LoopStarted == server.lpc # "none"

\* the accept loop is at its send and the send can never proceed
LoopStuck ==
    /\ server.lpc = "sending"
    /\ server.pc = "returned"
    /\ Len(server.errCh.buf) >= server.errCh.cap

\* what holds of runRPCServer in every state
ServerShutdownSafe ==
    /\ server.returns <= 1
    /\ (server.pc = "returned" /\ LoopStarted) =>
         /\ server.listener = "closed"
         /\ server.ctxDone => server.result = "nil"
         /\ ~server.ctxDone =>
              /\ server.result = "fatal"
              /\ server.aerr = "fatal"
              /\ server.lpc = "done"
    /\ ~LoopStuck

\* the accept loop leaves its error branch on a temporary error while the
\* context is live only to call Accept again
TemporaryErrorRetried ==
    (/\ server.lpc = "failed"
     /\ server.aerr = "temporary"
     /\ ~server.ctxDone
     /\ server'.lpc # "failed") => server'.lpc = "accept"

\* C37: once the server context is cancelled, a serving runRPCServer closes
\* the listener and returns nil and the accept loop terminates, never left at
\* a send that cannot proceed; while the context is live a temporary accept
\* error is retried and a non-temporary one makes runRPCServer return it.
C37_ServerShutdown ==
    /\ []ServerShutdownSafe
    /\ [][TemporaryErrorRetried]_vars
    /\ (server.ctxDone /\ LoopStarted) ~>
         (server.pc = "returned" /\ server.result = "nil"
            /\ server.listener = "closed")
    /\ (server.ctxDone /\ LoopStarted) ~> (server.lpc = "done")
    /\ (server.lpc = "sending" /\ server.lret = "fatal" /\ ~server.ctxDone) ~>
         (server.pc = "returned"
            /\ (server.result = "fatal" \/ server.ctxDone))

\* the context was cancelled while the loop waited in Accept after a retried
\* temporary error: runRPCServer returned nil, the listener is closed and the
\* loop has reported and ended
C37_Witness ==
    /\ server.pc = "returned"
    /\ server.ctxDone
    /\ server.result = "nil"
    /\ server.listener = "closed"
    /\ server.temporary > 0
    /\ server.accepted > 0
    /\ server.lpc = "done"
    /\ server.errCh.buf = <<"ErrClosed">>

\* the databases of a request that get a GRANT: every name but the blank ones
GrantedNames(dbs) == SelectSeq(dbs, LAMBDA d : ~IsBlank(d))

\* the verbs of the statements of a request, in the fixed order
ExpectedVerbs(r) ==
    <<"CREATE USER", "ALTER USER">>
    \o [i \in 1..Len(GrantedNames(r.Databases)) |-> "GRANT"]
    \o <<"FLUSH PRIVILEGES">>

\* a non-blank name without the white space around it
Core(name) ==
    LET at == {i \in DOMAIN name : ~IsSpace(name[i])}
        lo == CHOOSE i \in at : \A j \in at : i <= j
        hi == CHOOSE i \in at : \A j \in at : j <= i
    IN  SubSeq(name, lo, hi)

\* the statements that succeeded, in the order they were sent
RECURSIVE SucceededOf(_, _)
SucceededOf(stmts, outs) ==
    IF stmts = <<>> THEN <<>>
    ELSE (IF Head(outs) = "ok" THEN <<Head(stmts)>> ELSE <<>>)
         \o SucceededOf(Tail(stmts), Tail(outs))

IsPrefix(s, t) == Len(s) <= Len(t) /\ \A i \in DOMAIN s : s[i] = t[i]

\* C38: the statements go out in the order CREATE USER, ALTER USER, one
\* GRANT per non-blank database in list order, FLUSH PRIVILEGES; the first
\* failing statement ends the call with its error and nothing is sent after
\* it; what succeeded before stays in effect; CreateUser reports success only
\* if every statement succeeded.
C38_StatementsInOrderNoUndo ==
    /\ IsPrefix([i \in DOMAIN usr.issued |-> usr.issued[i].verb],
                ExpectedVerbs(usr.req))
    /\ \A i \in DOMAIN usr.issued :
         usr.issued[i].verb = "GRANT" =>
            LET name == GrantedNames(usr.req.Databases)[i - 2]
            IN  /\ usr.issued[i].grantOption = usr.req.WithGrant
                /\ usr.issued[i].scope =
                     IF name = <<"*">> THEN <<"*.*">>
                     ELSE <<"backquote">>
                          \o SelectSeq(Core(name), LAMBDA c : c # "backquote")
                          \o <<"backquote", ".*">>
    /\ \A i \in DOMAIN usr.outcomes :
         usr.outcomes[i] = "err" => (i = Len(usr.outcomes) /\ usr.pc = "returned")
    /\ Len(usr.outcomes) = Len(usr.issued)
    /\ usr.applied = SucceededOf(usr.issued, usr.outcomes)
    /\ usr.pc = "returned" =>
         /\ usr.err = <<>> <=>
              /\ Len(usr.issued) = Len(ExpectedVerbs(usr.req))
              /\ \A i \in DOMAIN usr.outcomes : usr.outcomes[i] = "ok"
         /\ usr.response.Success <=> usr.err = <<>>
         /\ usr.response.Success => usr.response.Error = "NO_ERROR"
         /\ ~usr.response.Success =>
              /\ usr.response.Error = "OPERATION_FAILED"
              /\ usr.response.ErrorMessage = usr.err

\* the second of two GRANTs failed (a blank database name was skipped): the
\* user exists with its first grant, nothing was flushed, CreateUser reports
\* the failure
C38_Witness ==
    /\ usr.pc = "returned"
    /\ Len(usr.req.Databases) = MaxDatabases
    /\ Len(usr.issued) = 3
    /\ usr.issued[3].verb = "GRANT"
    /\ usr.outcomes = <<"ok", "ok", "err">>
    /\ [i \in DOMAIN usr.applied |-> usr.applied[i].verb] = <<"CREATE USER", "ALTER USER">>
    /\ ~usr.response.Success
    /\ \E i \in DOMAIN usr.req.Databases : IsBlank(usr.req.Databases[i])

====
